---- MODULE Spec2Model ----
(***************************************************************************)
(* A model of serd's statement store (src/model.c) and of its streaming    *)
(* reader (src/reader.c, src/n3.c, src/byte_source.c).                     *)
(*                                                                         *)
(* Statements are 4-tuples <<s, p, o, g>> of node identities; the node 0   *)
(* is the NULL pointer (a wildcard in patterns, the default graph in a     *)
(* statement).  Fields are numbered 1..4 where the C code numbers them     *)
(* 0..3; index orders keep the C numbering 0..11.                          *)
(***************************************************************************)
EXTENDS Integers, Sequences, FiniteSets, TLC

VARIABLES
    enabled,    \* the orders o for which model->indices[o] is non-NULL
    index,      \* model->indices: order -> the set of statements in that tree
    version,    \* model->version
    iters,      \* the iterators the caller holds, by slot
    live,       \* history: statements added with SERD_SUCCESS and not erased
    last        \* history: the last call, its status and what it saw

storeVars == <<enabled, index, version, iters, live, last>>

VARIABLES
    input,      \* what the reader is given: the stream, the mode and the sink
    reader,     \* the reader: its byte source and what it has dispatched
    ret         \* history: the last call on the reader and what it returned

readerVars == <<input, reader, ret>>

VARIABLES
    writer,     \* the writer: its contexts and the bytes it has written
    wrote       \* history: the last event the writer was given

writerVars == <<writer, wrote>>

VARIABLES
    env,        \* the environment: its base URI and its prefixes
    nodes,      \* the nodes the world has interned, in the order they came
    told        \* history: the last event the environment's owner was given

envVars == <<env, nodes, told>>

vars == <<enabled, index, version, iters, live, last, input, reader, ret,
          writer, wrote, env, nodes, told>>

----------------------------------------------------------------------------
(* Bounds of the model *)

MaxVersion == 3     \* no mutation is attempted once version reaches this
MaxIters   == 2     \* iterator slots held by the caller at the same time

Subjects   == {1, 2}
Predicates == {1, 2}
Objects    == {1, 2}
Graphs     == {0, 1}

\* The statements the caller adds: eight, in which every field takes both of
\* its values and every two of subject, predicate and object take all four
\* combinations, each triple in both graphs
Statements ==
    {q \in Subjects \X Predicates \X Objects \X Graphs :
        q[2] = 1 + ((q[1] + q[3]) % 2)}

\* Calls of serd_model_add with a NULL field
NullAdds == {<<0, 1, 1, 0>>, <<1, 0, 1, 0>>, <<1, 1, 0, 1>>}
Patterns   == (Subjects \cup {0}) \X (Predicates \cup {0}) \X
              (Objects \cup {0}) \X (Graphs \cup {0})

\* The patterns a caller finds the iterator it erases through with: every
\* statement of the primary index is reached from the first, the others
\* reach statements through the other trees
ErasePatterns ==
    {<<0, 0, 0, 0>>} \cup {<<s, 0, 0, 0>> : s \in Subjects}
                    \cup {<<0, 0, o, 0>> : o \in Objects}
                    \cup {<<0, 0, 0, g>> : g \in Graphs \ {0}}

----------------------------------------------------------------------------
(* Orders and orderings *)

SPO  == 0
SOP  == 1
OPS  == 2
OSP  == 3
PSO  == 4
POS  == 5
GSPO == 6

NUM_ORDERS == 12
TUP_LEN    == 4
SERD_GRAPH == 4

DEFAULT_ORDER       == SPO
DEFAULT_GRAPH_ORDER == GSPO

\* orderings[order + 1] is the field sequence an order compares by
orderings ==
    << <<1, 2, 3, 4>>, <<1, 3, 2, 4>>, <<3, 2, 1, 4>>,
       <<3, 1, 2, 4>>, <<2, 1, 3, 4>>, <<2, 3, 1, 4>>,
       <<4, 1, 2, 3>>, <<4, 1, 3, 2>>, <<4, 3, 2, 1>>,
       <<4, 3, 1, 2>>, <<4, 2, 1, 3>>, <<4, 2, 3, 1>> >>

Ordering(order) == orderings[order + 1]

END == <<>>         \* the end position of a tree iterator (also a NULL one)

----------------------------------------------------------------------------
(* Node and statement comparison *)

serd_node_compare(a, b) ==
    IF a = b THEN 0
    ELSE IF a = 0 THEN -1
    ELSE IF b = 0 THEN 1
    ELSE IF a < b THEN -1 ELSE 1

serd_node_wildcard_compare(a, b) ==
    IF a = 0 \/ b = 0 THEN 0 ELSE serd_node_compare(a, b)

serd_node_pattern_match(a, b) ==
    a = 0 \/ b = 0 \/ a = b

RECURSIVE TripleCompareFrom(_, _, _, _)
TripleCompareFrom(x, y, ord, i) ==
    IF i > TUP_LEN THEN 0
    ELSE LET o == ord[i]
             c == IF o # SERD_GRAPH
                  THEN serd_node_wildcard_compare(x[o], y[o])
                  ELSE 0
         IN  IF c # 0 THEN c ELSE TripleCompareFrom(x, y, ord, i + 1)

serd_triple_compare(x, y, ord) == TripleCompareFrom(x, y, ord, 1)

serd_quad_compare(x, y, ord) ==
    LET cmp == serd_node_compare(x[SERD_GRAPH], y[SERD_GRAPH])
    IN  IF cmp # 0 THEN cmp ELSE serd_triple_compare(x, y, ord)

\* The comparator serd_model_new gives the tree of an order
Comparator(order, x, y) ==
    IF order < GSPO
    THEN serd_triple_compare(x, y, Ordering(order))
    ELSE serd_quad_compare(x, y, Ordering(order))

serd_statement_matches_quad(s, pat) ==
    \A i \in 1..TUP_LEN : serd_node_pattern_match(s[i], pat[i])

----------------------------------------------------------------------------
(* The sorted tree of an index: a set kept in the order of its comparator *)

TreeMin(order, C) ==
    IF C = {} THEN END
    ELSE CHOOSE x \in C : \A y \in C : Comparator(order, x, y) <= 0

zix_btree_begin(T, order) == TreeMin(order, T)

zix_btree_lower_bound(T, order, key) ==
    TreeMin(order, {x \in T : Comparator(order, x, key) >= 0})

zix_btree_iter_increment(T, order, cur) ==
    TreeMin(order, {x \in T : Comparator(order, x, cur) > 0})

zix_btree_insert(T, order, e) ==
    IF \E x \in T : Comparator(order, x, e) = 0
    THEN [tree |-> T, exists |-> TRUE]
    ELSE [tree |-> T \cup {e}, exists |-> FALSE]

zix_btree_remove(T, order, e) ==
    LET hit == {x \in T : Comparator(order, x, e) = 0}
    IN  IF hit = {}
        THEN [tree |-> T, removed |-> END, next |-> END]
        ELSE LET x == CHOOSE x \in hit : TRUE
             IN  [tree |-> T \ {x}, removed |-> x,
                  next |-> zix_btree_iter_increment(T, order, x)]

----------------------------------------------------------------------------
(* Pattern search: the choice of index *)

\* serd_model_has_index: with `graphs` the order becomes its graph-prefixed
\* counterpart and the prefix grows by one, whether or not the index exists
serd_model_has_index(en, order, n_prefix, graphs) ==
    LET o == IF graphs THEN order + GSPO ELSE order
        n == IF graphs THEN n_prefix + 1 ELSE n_prefix
    IN  [order |-> o, n_prefix |-> n, has |-> o \in en]

\* The two tries "if has_index(good[0]) ... else if has_index(good[1])" on
\* a PAT_CASE row <<good[0], good[1], n_prefix>>; the second try starts from
\* the *n_prefix the first one left
TrySecond(en, h0, g1, graphs) ==
    IF h0.has THEN h0 ELSE serd_model_has_index(en, g1, h0.n_prefix, graphs)

TryGood(en, row, graphs) ==
    TrySecond(en, serd_model_has_index(en, row[1], row[3], graphs), row[2], graphs)

Sig(pat) == <<IF pat[1] # 0 THEN 1 ELSE 0,
              IF pat[2] # 0 THEN 1 ELSE 0,
              IF pat[3] # 0 THEN 1 ELSE 0>>

\* PAT_CASE rows of the first switch: good[0], good[1], n_prefix
RangeCase(sig) ==
    CASE sig = <<0, 0, 1>> -> <<OPS, OSP, 1>>
      [] sig = <<0, 1, 0>> -> <<POS, PSO, 1>>
      [] sig = <<0, 1, 1>> -> <<OPS, POS, 2>>
      [] sig = <<1, 0, 0>> -> <<SPO, SOP, 1>>
      [] sig = <<1, 0, 1>> -> <<SOP, OSP, 2>>
      [] sig = <<1, 1, 0>> -> <<SPO, PSO, 2>>

\* PAT_CASE rows of the second switch
FilterRangeCase(sig) ==
    CASE sig = <<0, 1, 1>> -> <<OSP, PSO, 1>>
      [] sig = <<1, 0, 1>> -> <<SPO, OPS, 1>>

\* The tail of serd_model_best_index, n being *n_prefix as left so far
BestIndexFallback(graph_search, n) ==
    IF graph_search
    THEN [order |-> DEFAULT_GRAPH_ORDER, mode |-> "FILTER_RANGE", n_prefix |-> 1]
    ELSE [order |-> DEFAULT_ORDER, mode |-> "FILTER_ALL", n_prefix |-> n]

\* The outcome of a switch whose tries gave h
BestIndexTried(h, mode) ==
    [order |-> h.order, mode |-> mode, n_prefix |-> h.n_prefix]

\* The second switch, for the patterns that have a row in it
BestIndexSecond(graph_search, h2) ==
    IF h2.has
    THEN BestIndexTried(h2, "FILTER_RANGE")
    ELSE BestIndexFallback(graph_search, h2.n_prefix)

\* After the first switch, whose tries gave h1
BestIndexFirst(en, sig, graph_search, h1) ==
    IF h1.has THEN BestIndexTried(h1, "RANGE")
    ELSE IF sig \in {<<0, 1, 1>>, <<1, 0, 1>>}
    THEN BestIndexSecond(graph_search,
                         TryGood(en, FilterRangeCase(sig), graph_search))
    ELSE BestIndexFallback(graph_search, h1.n_prefix)

BestIndexOf(en, sig, graph_search) ==
    IF sig = <<0, 0, 0>>
    THEN [order |-> DEFAULT_GRAPH_ORDER, mode |-> "RANGE", n_prefix |-> 1]
    ELSE IF sig = <<1, 1, 1>>
    THEN [order    |-> IF graph_search THEN DEFAULT_GRAPH_ORDER ELSE DEFAULT_ORDER,
          mode     |-> "RANGE",
          n_prefix |-> IF graph_search THEN 4 ELSE 3]
    ELSE BestIndexFirst(en, sig, graph_search,
                        TryGood(en, RangeCase(sig), graph_search))

serd_model_best_index(en, pat) ==
    BestIndexOf(en, Sig(pat), pat[SERD_GRAPH] # 0)

----------------------------------------------------------------------------
(* Iterators *)

AllWild == <<0, 0, 0, 0>>

\* A NULL SerdIter*; also the content of an iterator slot the caller
\* does not use
NullIter ==
    [cur |-> END, pat |-> AllWild, order |-> -1, mode |-> "NULL",
     n_prefix |-> 0, version |-> -1]

\* Whether the first n_prefix fields of the order still match the pattern
PrefixMatches(key, pat, order, n_prefix) ==
    \A i \in 1..n_prefix :
        serd_node_pattern_match(key[Ordering(order)[i]], pat[Ordering(order)[i]])

RECURSIVE serd_iter_seek_match(_, _, _, _)
serd_iter_seek_match(T, order, cur, pat) ==
    IF cur = END THEN END
    ELSE IF serd_statement_matches_quad(cur, pat) THEN cur
    ELSE serd_iter_seek_match(T, order, zix_btree_iter_increment(T, order, cur), pat)

RECURSIVE serd_iter_seek_match_range(_, _, _, _, _)
serd_iter_seek_match_range(T, order, cur, pat, n_prefix) ==
    IF cur = END THEN END
    ELSE IF serd_statement_matches_quad(cur, pat) THEN cur
    ELSE IF ~PrefixMatches(cur, pat, order, n_prefix) THEN END
    ELSE serd_iter_seek_match_range(
             T, order, zix_btree_iter_increment(T, order, cur), pat, n_prefix)

\* Move an iterator that was stepped (or whose element was removed) to the
\* next statement its mode accepts
serd_iter_scan_next(idx, it) ==
    IF it.cur = END THEN it
    ELSE CASE it.mode = "ALL" -> it
           [] it.mode = "RANGE" ->
                IF PrefixMatches(it.cur, it.pat, it.order, it.n_prefix)
                THEN it ELSE [it EXCEPT !.cur = END]
           [] it.mode = "FILTER_RANGE" ->
                [it EXCEPT !.cur = serd_iter_seek_match_range(
                    idx[it.order], it.order, it.cur, it.pat, it.n_prefix)]
           [] it.mode = "FILTER_ALL" ->
                [it EXCEPT !.cur = serd_iter_seek_match(
                    idx[it.order], it.order, it.cur, it.pat)]

serd_iter_new(idx, ver, cur, pat, order, mode, n_prefix) ==
    LET it == [cur |-> cur, pat |-> pat, order |-> order, mode |-> mode,
               n_prefix |-> n_prefix, version |-> ver]
    IN  IF mode \in {"FILTER_RANGE", "FILTER_ALL"}
        THEN serd_iter_scan_next(idx, it)
        ELSE it

serd_iter_next(idx, it) ==
    IF it.cur = END THEN it
    ELSE serd_iter_scan_next(
             idx,
             [it EXCEPT !.cur = zix_btree_iter_increment(idx[it.order], it.order, it.cur)])

----------------------------------------------------------------------------
(* Queries *)

PrimaryOrder(en) == IF GSPO \in en THEN GSPO ELSE SPO

serd_model_size(en, idx) == Cardinality(idx[PrimaryOrder(en)])

\* model->end, made by serd_model_new while the version is still 0
serd_model_end(en) ==
    [cur |-> END, pat |-> AllWild, order |-> PrimaryOrder(en), mode |-> "ALL",
     n_prefix |-> 0, version |-> 0]

\* serd_model_begin that starts in the SPO tree whatever the indices are
serd_model_begin_spo(en, idx, ver) ==
    IF serd_model_size(en, idx) = 0
    THEN serd_model_end(en)
    ELSE serd_iter_new(idx, ver, zix_btree_begin(idx[SPO], SPO),
                       AllWild, SPO, "ALL", 0)

serd_model_begin(en, idx, ver) ==
    IF serd_model_size(en, idx) = 0
    THEN serd_model_end(en)
    ELSE serd_iter_new(idx, ver,
                       zix_btree_begin(idx[PrimaryOrder(en)], PrimaryOrder(en)),
                       AllWild, PrimaryOrder(en), "ALL", 0)

\* The pattern holding only the first n_prefix fields of the order
PrefixPat(pat, order, n_prefix) ==
    [f \in 1..TUP_LEN |->
        IF \E i \in 1..n_prefix : Ordering(order)[i] = f THEN pat[f] ELSE 0]

\* Where serd_model_find starts in the tree db of the chosen index
FindStart(db, pat, best) ==
    CASE best.mode = "FILTER_ALL" ->
           zix_btree_begin(db, best.order)
      [] best.mode = "FILTER_RANGE" ->
           zix_btree_lower_bound(
               db, best.order, PrefixPat(pat, best.order, best.n_prefix))
      [] OTHER ->
           zix_btree_lower_bound(db, best.order, pat)

\* What serd_model_find returns once it stands at cur
FindFrom(idx, ver, pat, best, cur) ==
    IF cur = END THEN NullIter
    ELSE IF best.mode = "RANGE" /\ ~serd_statement_matches_quad(cur, pat)
    THEN NullIter
    ELSE serd_iter_new(idx, ver, cur, pat, best.order, best.mode, best.n_prefix)

FindIn(idx, ver, pat, best) ==
    FindFrom(idx, ver, pat, best, FindStart(idx[best.order], pat, best))

\* An order the store has no tree for is searched as a tree with no element
serd_model_find(en, idx, ver, pat) ==
    IF pat = AllWild THEN serd_model_begin(en, idx, ver)
    ELSE FindIn(idx, ver, pat, serd_model_best_index(en, pat))

\* The loop of serd_model_count over serd_model_range(pattern)
RECURSIVE RangeLength(_, _)
RangeLength(idx, it) ==
    IF it.cur = END THEN 0 ELSE 1 + RangeLength(idx, serd_iter_next(idx, it))

serd_model_count(en, idx, ver, pat) ==
    RangeLength(idx, serd_model_find(en, idx, ver, pat))

\* serd_model_ask that only tests the iterator for NULL
serd_model_ask_nonnull(en, idx, ver, pat) ==
    serd_model_find(en, idx, ver, pat) # NullIter

serd_model_ask(en, idx, ver, pat) ==
    LET iter == serd_model_find(en, idx, ver, pat)
    IN  iter # NullIter /\ iter.cur # END

\* The statements an iteration from `it` to the end reports, in order
RECURSIVE RangeList(_, _)
RangeList(idx, it) ==
    IF it.cur = END THEN <<>>
    ELSE <<it.cur>> \o RangeList(idx, serd_iter_next(idx, it))

----------------------------------------------------------------------------
(* Mutation *)

RECURSIVE AddLoop(_, _, _, _, _)
AddLoop(en, idx, statement, i, added) ==
    IF i >= NUM_ORDERS THEN [index |-> idx, added |-> added]
    ELSE IF i \notin en THEN AddLoop(en, idx, statement, i + 1, added)
    ELSE LET r == zix_btree_insert(idx[i], i, statement)
         IN  IF ~r.exists
             THEN AddLoop(en, [idx EXCEPT ![i] = r.tree], statement, i + 1, TRUE)
             ELSE IF i = GSPO
             THEN [index |-> idx, added |-> added]
             ELSE AddLoop(en, idx, statement, i + 1, added)

AddStatus(ver, r) ==
    [index   |-> r.index,
     version |-> ver + 1,
     st      |-> IF r.added THEN "SERD_SUCCESS" ELSE "SERD_FAILURE"]

serd_model_add_internal(en, idx, ver, statement) ==
    AddStatus(ver, AddLoop(en, idx, statement, 0, FALSE))

serd_model_add(en, idx, ver, s, p, o, g) ==
    IF s = 0 \/ p = 0 \/ o = 0
    THEN [index |-> idx, version |-> ver, st |-> "SERD_ERR_BAD_ARG"]
    ELSE serd_model_add_internal(en, idx, ver, <<s, p, o, g>>)

\* The loop of serd_model_erase: the statement leaves every tree there is,
\* and the tree of the iterator's own order tells where the iterator goes
EraseLoop(en, idx, statement) ==
    [i \in 0..(NUM_ORDERS - 1) |->
        IF i \in en
        THEN zix_btree_remove(idx[i], i, statement)
        ELSE [tree |-> idx[i], removed |-> END, next |-> END]]

EraseMoved(en, iter, rem) ==
    IF iter.order \in en THEN [iter EXCEPT !.cur = rem[iter.order].next] ELSE iter

\* serd_model_erase without "iter->version =": the iterator erased through
\* keeps the version it had
EraseStatusStale(ver, idx2, scanned) ==
    [index   |-> idx2,
     version |-> ver + 1,
     iter    |-> scanned,
     st      |-> "SERD_SUCCESS"]

EraseStatus(ver, idx2, scanned) ==
    [index   |-> idx2,
     version |-> ver + 1,
     iter    |-> [scanned EXCEPT !.version = ver + 1],
     st      |-> "SERD_SUCCESS"]

EraseScan(ver, idx2, moved) ==
    EraseStatus(ver, idx2, serd_iter_scan_next(idx2, moved))

EraseWith(en, ver, iter, rem) ==
    EraseScan(ver, [i \in 0..(NUM_ORDERS - 1) |-> rem[i].tree],
              EraseMoved(en, iter, rem))

\* serd_model_erase: the statement under `iter` leaves every tree, the
\* iterator moves on in its own tree and takes the store's new version
serd_model_erase(en, idx, ver, iter) ==
    EraseWith(en, ver, iter, EraseLoop(en, idx, iter.cur))

\* serd_model_erase_range; `erased` lists what the loop erased, for `live`
RECURSIVE serd_model_erase_range(_, _, _, _)
EraseRangeRest(en, first, r) ==
    [serd_model_erase_range(en, r.index, r.version, r.iter)
        EXCEPT !.erased = @ \cup {first}]

serd_model_erase_range(en, idx, ver, begin) ==
    IF begin.cur = END
    THEN [index |-> idx, version |-> ver, iter |-> begin, st |-> "SERD_SUCCESS",
          erased |-> {}]
    ELSE EraseRangeRest(en, begin.cur, serd_model_erase(en, idx, ver, begin))

serd_model_insert(en, idx, ver, statement) ==
    IF statement = END
    THEN [index |-> idx, version |-> ver, st |-> "SERD_FAILURE"]
    ELSE serd_model_add_internal(en, idx, ver, statement)

----------------------------------------------------------------------------
(* The store and its caller as a state machine *)

Slots == 1..MaxIters

\* serd_model_new(flags): SPO is forced on; with SERD_INDEX_GRAPHS every
\* enabled triple order gets its graph-prefixed counterpart
serd_model_new(flags, graphs) ==
    LET triple == {SPO} \cup flags
    IN  triple \cup (IF graphs THEN {i + GSPO : i \in triple} ELSE {})

\* The index selections the store is made with.  serd_model_best_index asks
\* for one index at a time in a fixed order of preference, so the selections
\* with at most one index besides SPO, and the one with all of them, make
\* every one of its choices happen
IndexChoices ==
    {{}} \cup {{o} : o \in {SOP, OPS, OSP, PSO, POS}} \cup {{SOP, OPS, OSP, PSO, POS}}

StoreInitWith(choices) ==
    /\ \E flags \in choices, graphs \in BOOLEAN :
           enabled = serd_model_new(flags, graphs)
    /\ index = [i \in 0..(NUM_ORDERS - 1) |-> {}]
    /\ version = 0
    /\ iters = [k \in Slots |-> NullIter]
    /\ live = {}
    /\ last = [op |-> "new", st |-> "SERD_SUCCESS", dup |-> FALSE, it |-> 0]
    /\ input = <<>>
    /\ reader = <<>>
    /\ ret = <<>>
    /\ writer = <<>>
    /\ wrote = <<>>
    /\ env = <<>>
    /\ nodes = <<>>
    /\ told = <<>>

StoreInit == StoreInitWith(IndexChoices)

FreeSlot(k) ==
    /\ iters[k] = NullIter
    /\ \A j \in Slots : j < k => iters[j] # NullIter

\* A caller only steps or erases through an iterator that is still valid
Valid(k) ==
    /\ iters[k] # NullIter
    /\ iters[k].version = version
    /\ iters[k].cur # END

\* What a call leaves in the store's fields and in the history
Returned(r, op, dup, k) ==
    /\ index' = r.index
    /\ version' = r.version
    /\ last' = [op |-> op, st |-> r.st, dup |-> dup, it |-> k]
    /\ UNCHANGED <<readerVars, writerVars, envVars>>

Added(r, op, statement) ==
    /\ Returned(r, op, statement \in live, 0)
    /\ live' = IF r.st = "SERD_SUCCESS" THEN live \cup {statement} ELSE live

Add(s, p, o, g) ==
    /\ version < MaxVersion
    /\ Added(serd_model_add(enabled, index, version, s, p, o, g),
             "add", <<s, p, o, g>>)
    /\ UNCHANGED <<enabled, iters>>

Insert(statement) ==
    /\ version < MaxVersion
    /\ Added(serd_model_insert(enabled, index, version, statement),
             "insert", statement)
    /\ UNCHANGED <<enabled, iters>>

Queried(k, it, op) ==
    /\ iters' = [iters EXCEPT ![k] = it]
    /\ last' = [op |-> op, st |-> "SERD_SUCCESS", dup |-> FALSE, it |-> 0]
    /\ UNCHANGED <<enabled, index, version, live>>
    /\ UNCHANGED <<readerVars, writerVars, envVars>>

Begin(k) ==
    /\ FreeSlot(k)
    /\ Queried(k, serd_model_begin(enabled, index, version), "find")

Find(k, pat) ==
    /\ FreeSlot(k)
    /\ Queried(k, serd_model_find(enabled, index, version, pat), "find")

IterNext(k) ==
    /\ Valid(k)
    /\ Queried(k, serd_iter_next(index, iters[k]), "find")

IterFree(k) ==
    /\ iters[k] # NullIter
    /\ Queried(k, NullIter, "find")

\* What an erasing call leaves; k = 0 when the caller frees the iterator
\* right after the call
Erased(r, op, k, gone) ==
    /\ r.version <= MaxVersion
    /\ Returned(r, op, FALSE, k)
    /\ live' = live \ gone
    /\ iters' = IF k = 0 THEN iters ELSE [iters EXCEPT ![k] = r.iter]
    /\ UNCHANGED enabled

\* serd_model_erase(model, iters[k])
Erase(k) ==
    /\ Valid(k)
    /\ Erased(serd_model_erase(enabled, index, version, iters[k]),
              "erase", k, {iters[k].cur})

ErasedRange(r, k) == Erased(r, "erase_range", k, r.erased)

\* serd_model_erase_range(model, range) for the range that begins at iters[k]
EraseRange(k) ==
    /\ Valid(k)
    /\ ErasedRange(serd_model_erase_range(enabled, index, version, iters[k]), k)

\* The iterator a caller has after n steps from `it`
RECURSIVE IterAt(_, _, _)
IterAt(idx, it, n) ==
    IF n = 0 THEN it ELSE IterAt(idx, serd_iter_next(idx, it), n - 1)

EraseAt(it) ==
    /\ it.cur # END
    /\ Erased(serd_model_erase(enabled, index, version, it), "erase", 0, {it.cur})

\* i = find(pat); n times next(i); erase(model, i); free(i)
EraseFound(pat, n) ==
    EraseAt(IterAt(index, serd_model_find(enabled, index, version, pat), n))

EraseRangeAt(it) ==
    /\ it.cur # END
    /\ ErasedRange(serd_model_erase_range(enabled, index, version, it), 0)

\* r = range(pat); erase_range(model, r); free(r)
EraseRangeFound(pat) ==
    EraseRangeAt(serd_model_find(enabled, index, version, pat))

----
(* The store under every index configuration.  The caller keeps no iterator *)
(* between calls: it erases through one it has just found and stepped.      *)

StoreNext ==
    \/ \E q \in Statements \cup NullAdds : Add(q[1], q[2], q[3], q[4])
    \/ \E pat \in ErasePatterns, n \in 0..(MaxVersion - 2) : EraseFound(pat, n)
    \/ \E pat \in ErasePatterns : EraseRangeFound(pat)

SpecStore == StoreInit /\ [][StoreNext]_vars

----------------------------------------------------------------------------
(* The store and a caller that keeps iterators across its calls *)

\* The statements of the caller that keeps iterators: one triple in both
\* graphs and another triple
IterStatements == {<<1, 1, 1, 0>>, <<1, 1, 1, 1>>}

IterPatterns == {<<0, 0, 1, 0>>, <<0, 0, 0, 1>>}

ItersInit == StoreInitWith({{OPS}})

ItersNext ==
    \/ \E q \in IterStatements : Add(q[1], q[2], q[3], q[4])
    \/ \E statement \in {<<1, 1, 1, 1>>, END} : Insert(statement)
    \/ \E k \in Slots : Begin(k)
    \/ \E k \in Slots, pat \in IterPatterns : Find(k, pat)
    \/ \E k \in Slots : IterNext(k)
    \/ \E k \in Slots : IterFree(k)
    \/ \E k \in Slots : Erase(k)
    \/ \E k \in Slots : EraseRange(k)

SpecIters == ItersInit /\ [][ItersNext]_vars

----------------------------------------------------------------------------
(* Properties of the store *)

Mutations == {"add", "insert", "erase", "erase_range"}

\* An iterator the caller holds besides the one of slot k (k = 0: any)
OtherIterator(k) == \E j \in Slots : j # k /\ iters[j] # NullIter

\* The statements of `live` that agree with a pattern at every position
\* where the pattern has a node
Matching(pat) == {q \in live : \A i \in 1..TUP_LEN : pat[i] # 0 => q[i] = pat[i]}

\* What iterating find(*, *, *, *) to the end reports
Everything == RangeList(index, serd_model_find(enabled, index, version, AllWild))

\* C1: after any adds and erases, under any selection of indices, a statement
\* is in every enabled index or in none: all enabled indices hold the same
\* statements
IndexConsistency == \A i \in enabled, j \in enabled : index[i] = index[j]

\* C2: a mutating call made while the caller holds an iterator other than the
\* one passed to the call returns SERD_ERR_BAD_ITER and leaves the statements
\* of the store as they were
MutationRejectedWhileIterating ==
    [][(last'.op \in Mutations /\ OtherIterator(last'.it))
          => (last'.st = "SERD_ERR_BAD_ITER" /\ index' = index)]_storeVars

\* A successful add or insert, or an erase, has just been made
MutatedBy(l) ==
    \/ l.op \in {"add", "insert"} /\ l.st = "SERD_SUCCESS"
    \/ l.op = "erase"

\* C3: a successful add and an erase each increment the version of the store;
\* every iterator made before then differs from the store in its version,
\* except the one passed to erase, which has the new version of the store
MutationInvalidatesIterators ==
    [][MutatedBy(last') =>
          /\ version' = version + 1
          /\ \A k \in Slots :
                 (iters[k] # NullIter /\ k # last'.it)
                     => iters'[k].version # version'
          /\ last'.op = "erase" => iters'[last'.it].version = version'
      ]_storeVars

\* An erase was made through one iterator while another was held: the other
\* is now invalid, the one erased through is valid
ErasedWhileIterating ==
    /\ last.op = "erase"
    /\ iters[last.it].version = version
    /\ \E k \in Slots :
           k # last.it /\ iters[k] # NullIter /\ iters[k].version # version

\* C4: under any indexing, after any adds and erases, iterating
\* find(*, *, *, *) to the end reports the statements added and not since
\* erased, each of them once
FindAllReportsLive ==
    /\ Len(Everything) = Cardinality(live)
    /\ {Everything[i] : i \in 1..Len(Everything)} = live

\* Something was erased from a store with graph indices in which a triple
\* was in two graphs, and statements are left
ErasedSomeLeftOthers ==
    /\ last.op = "erase"
    /\ GSPO \in enabled
    /\ live # {}
    /\ index[SPO] # index[GSPO]

\* C5: adding a statement equal to a stored one returns SERD_FAILURE and
\* leaves the statements, the size and the version of the store as they were
DuplicateAddIsNoOp ==
    [][(last'.op = "add" /\ last'.dup)
          => /\ last'.st = "SERD_FAILURE"
             /\ index' = index
             /\ serd_model_size(enabled, index') = serd_model_size(enabled, index)
             /\ version' = version]_storeVars

\* C6: for every pattern, store state and index configuration, count(P) is
\* the number of stored statements that agree with P at each position where
\* P is not a wildcard
CountIsNumberMatching ==
    \A pat \in Patterns :
        serd_model_count(enabled, index, version, pat) = Cardinality(Matching(pat))

\* C7: for any pattern P and any store state, ask(P) is true exactly when
\* count(P) > 0
AskIffCountPositive ==
    \A pat \in Patterns :
        serd_model_ask(enabled, index, version, pat)
            <=> serd_model_count(enabled, index, version, pat) > 0

\* Some pattern has statements, and for another the search comes back with
\* an iterator that stands at the end
AskedBothWays ==
    /\ \E pat \in Patterns : serd_model_count(enabled, index, version, pat) > 0
    /\ \E pat \in Patterns :
           LET iter == serd_model_find(enabled, index, version, pat)
           IN  iter # NullIter /\ iter.cur = END

----------------------------------------------------------------------------
(* The reader's input.                                                     *)
(*                                                                         *)
(* The input is modelled one lexical unit at a time rather than one byte   *)
(* at a time: "iri" is an IRI reference <...>, "dotted" a prefixed name    *)
(* written right before the '.' that ends its statement (read_PN_LOCAL     *)
(* reads that '.' and reports it through ate_dot), "@prefix" and "@base"   *)
(* are the directives up to and including their IRI, "nl" is a newline,    *)
(* "NUL" a zero byte and "bad" a byte that starts no production.  The      *)
(* punctuation marks stand for themselves.  GAP is not a byte: it is one   *)
(* call of the read function that returns 0 bytes, as a socket with no     *)
(* data pending does.  The source reads through a function, one byte per   *)
(* call (page_size 1), and the syntax is Turtle.                           *)

GAP == "GAP"

EOF == "EOF"    \* what peek_byte returns at the end of the input

MaxUnits == 3       \* the input is at most this many units long
MaxSinkFail == 2    \* the sink can fail on its k-th event, k up to this

\* The units inputs are made of: statements of every shape the productions
\* below tell apart, broken statements, directives and delimiters
Units ==
    { <<"iri", "iri", "iri", ".">>,
      <<"iri", "iri", "iri", ",", "iri", ";", "iri", "dotted">>,
      <<"iri", "iri", "[", "iri", "(", "iri", ")", "]", ".">>,
      <<"[", "iri", "iri", "]", "iri", "iri", ".">>,
      <<"iri", "iri", "[", "bad", "]", ".">>,
      <<"@prefix", ".">>,
      <<"@base", ".">>,
      <<"bad">>,
      <<"nl">>,
      <<"NUL">>,
      <<GAP>> }

RECURSIVE Streams(_)
Streams(n) ==
    IF n = 0 THEN {<<>>}
    ELSE Streams(n - 1) \cup {s \o u : s \in Streams(n - 1), u \in Units}

\* More cells of stack than any input of MaxUnits units needs
AmpleStack == 16 * (MaxUnits + 1)

\* What a reader is given: the stream, strict or lax, the event the sink
\* fails on, the cells of stack left for parsing once the reader is made,
\* whether a blank prefix was added, and what the build does with an access
\* through a null node pointer (it traps, or the access is lost)
Inputs ==
    [stream : Streams(MaxUnits), strict : BOOLEAN, failAt : 0..MaxSinkFail,
     stack : {AmpleStack}, bprefix : {FALSE}, nullTraps : {TRUE}]

----------------------------------------------------------------------------
(* Statuses and results.                                                   *)
(*                                                                         *)
(* A production takes the reader r and returns a record: the reader after  *)
(* it, its SerdStatus, what it stored through its ate_dot argument and     *)
(* the node it stored through its dest argument.                           *)

Failed(st) == st # "SERD_SUCCESS"       \* if (st)

IsError(st) == st \notin {"SERD_SUCCESS", "SERD_FAILURE"}  \* st > SERD_FAILURE

\* A node is its type and what tells it from the others of its type: the
\* place in the stream of the token it was read from, or the number in a
\* blank label; 0 when the text of the node was lost
Node(type, id) == [type |-> type, id |-> id]

NullNode == Node("NULL", 0)

Res(r, st, dot) == [r |-> r, st |-> st, ate_dot |-> dot, node |-> NullNode]

Ok(r) == Res(r, "SERD_SUCCESS", FALSE)

NoDot(res) == [res EXCEPT !.ate_dot = FALSE]

\* History: the first error raised in the current call, and how many events
\* had been dispatched when it was raised
Raise(r, st) ==
    IF r.errSt = "SERD_SUCCESS" /\ ~r.crashed
    THEN [r EXCEPT !.errSt = st, !.errEv = Len(r.ev)]
    ELSE r

r_err(r, st) == Res(Raise(r, st), st, FALSE)

\* An access through a null node pointer, or outside the node: the process
\* is killed there, or goes on with the access lost
Undefined(r) == IF input.nullTraps THEN [r EXCEPT !.crashed = TRUE] ELSE r

----------------------------------------------------------------------------
(* The byte source.  A reader that was killed does nothing more. *)

\* The read function is called once: it stores the next byte, or returns 0
\* and leaves the byte alone.  Returns SERD_FAILURE exactly when eof is set.
serd_byte_source_advance(r) ==
    IF r.crashed THEN r
    ELSE IF r.pos <= Len(input.stream) /\ input.stream[r.pos] # GAP
    THEN [r EXCEPT !.pos = @ + 1, !.byte = input.stream[r.pos], !.eof = FALSE]
    ELSE [r EXCEPT !.pos = IF @ <= Len(input.stream) THEN @ + 1 ELSE @,
                   !.eof = TRUE]

AdvanceStatus(r) == Res(r, IF r.eof THEN "SERD_FAILURE" ELSE "SERD_SUCCESS", FALSE)

serd_byte_source_prepare(r) ==
    AdvanceStatus(serd_byte_source_advance([r EXCEPT !.prepared = TRUE]))

peek_byte(r) == IF r.eof \/ r.crashed THEN EOF ELSE r.byte

eat_byte_safe(r) == serd_byte_source_advance(r)

eat_byte_check(r, byte) ==
    IF peek_byte(r) # byte THEN r_err(r, "SERD_ERR_BAD_SYNTAX")
    ELSE Ok(eat_byte_safe(r))

RECURSIVE read_ws_star(_)
read_ws_star(r) ==
    IF peek_byte(r) = "nl" THEN read_ws_star(eat_byte_safe(r)) ELSE r

----------------------------------------------------------------------------
(* The stack of nodes.  Sizes are in cells: a node header is one cell, a   *)
(* terminating null one cell, the text of a token one cell, and a          *)
(* generated label has room for "b" and one digit after the blank prefix.  *)

Fits(r, n) == r.size + n <= input.stack

\* History: a push found no room in the current call
Full(r) == [r EXCEPT !.full = TRUE]

\* NULL when the cells do not fit; otherwise the stack grows by them
serd_stack_push(r, n) == [r EXCEPT !.size = @ + n]

serd_stack_pop_to(r, size) == [r EXCEPT !.size = size]

bprefix_len == IF input.bprefix THEN 1 ELSE 0

genid_size == bprefix_len + 1 + 1 + 1

\* A terminator for the node before, then the node.  The result carries
\* the node, NullNode when either did not fit
push_node_padded(r, maxlen, node) ==
    IF ~Fits(r, 1) THEN Ok(Full(r))
    ELSE IF ~Fits(serd_stack_push(r, 1), 1 + maxlen + 1)
    THEN Ok(Full(serd_stack_push(r, 1)))
    ELSE [Ok(serd_stack_push(r, 1 + 1 + maxlen + 1)) EXCEPT !.node = node]

push_node(r, type, n_bytes) == push_node_padded(r, n_bytes, Node(type, 0))

\* The node gets the label b<next_id>, after the blank prefix
set_blank_id(r) ==
    [Ok([r EXCEPT !.next_id = @ + 1]) EXCEPT !.node = Node("b", r.next_id)]

blank_id(r) ==
    LET ref == push_node_padded(r, genid_size, Node("b", 0))
    IN  IF ref.node = NullNode THEN ref ELSE set_blank_id(ref.r)

\* The text of the token at id is added to res.node
push_byte(res, id) ==
    IF ~Fits(res.r, 1)
    THEN [res EXCEPT !.st = "SERD_ERR_OVERFLOW", !.r = Full(@)]
    ELSE IF res.node = NullNode
    THEN [res EXCEPT !.r = Undefined(serd_stack_push(@, 1))]
    ELSE [res EXCEPT !.r = serd_stack_push(@, 1), !.node.id = id]

----------------------------------------------------------------------------
(* The sink *)

\* The event has been appended: the sink fails on its failAt-th event
SinkReturned(r) ==
    IF Len(r.ev) = input.failAt
    THEN Res(Raise(r, "SERD_ERR_UNKNOWN"), "SERD_ERR_UNKNOWN", FALSE)
    ELSE Ok(r)

Event(kind, flags, s, p, o) ==
    [kind |-> kind, flags |-> flags, s |-> s, p |-> p, o |-> o]

Dispatch(r, event) ==
    IF r.crashed THEN Ok(r)
    ELSE SinkReturned([r EXCEPT !.ev = Append(@, event)])

\* serd_node_zero_pad reads the object node: a null one, or one whose
\* n_bytes went below 0, is an undefined access.  The flags are cleared
\* whatever the sink returns.
emit_statement(r, ctx, o) ==
    [Dispatch(IF o = NullNode \/ o.id < 0 THEN Undefined(r) ELSE r,
              Event("statement", r.flags, ctx.subject, ctx.predicate, o))
        EXCEPT !.r.flags = {}]
----------------------------------------------------------------------------
(* The productions of src/n3.c.  A loop of the C code is a recursive       *)
(* operator; what follows a call in the C code is an operator applied to   *)
(* the call's result.  ctx is the ReadContext, whose flags are the         *)
(* reader's field flags: every copy of ctx points at the same flags.       *)

RECURSIVE read_object(_, _)
RECURSIVE read_predicateObjectList(_, _)

ReadContext(subject, predicate) == [subject |-> subject, predicate |-> predicate]

rdf_first == Node("rdf:first", 0)
rdf_rest == Node("rdf:rest", 0)
rdf_nil == Node("rdf:nil", 0)

\* Neither the node nor the bytes pushed to it are checked
read_IRIREF(r) ==
    [push_byte(push_node(eat_byte_safe(r), "iri", 0), r.pos - 1)
        EXCEPT !.st = "SERD_SUCCESS"]

\* The '.' after the name is pushed, unchecked, and popped again, and
\* n_bytes goes down by one: to -1 when no byte of the name was pushed
read_PN_LOCAL(res) ==
    IF Fits(res.r, 1)
    THEN [res EXCEPT !.st = "SERD_SUCCESS", !.ate_dot = TRUE]
    ELSE [res EXCEPT !.st = "SERD_SUCCESS", !.ate_dot = TRUE,
                     !.r.size = @ - 1, !.r.full = TRUE,
                     !.node.id = IF Failed(res.st) THEN -1 ELSE 0]

\* res.node was pushed, and the name is at id in the stream
read_PrefixedName(res, id) == read_PN_LOCAL(push_byte(res, id))

read_iri(r) ==
    LET dest == push_node(r, "curie", 0)
    IN  IF peek_byte(r) = "iri" THEN read_IRIREF(r)
        ELSE IF dest.node = NullNode THEN r_err(dest.r, "SERD_ERR_OVERFLOW")
        ELSE IF peek_byte(r) = "dotted"
        THEN read_PrefixedName([dest EXCEPT !.r = eat_byte_safe(@)], r.pos - 1)
        ELSE [dest EXCEPT !.st = "SERD_FAILURE"]

\* A prefixed name that ends with '.' is no verb, nor is anything else
read_verb(r) ==
    LET dest == push_node(r, "curie", 0)
    IN  IF peek_byte(r) = "iri" THEN read_IRIREF(r)
        ELSE IF dest.node = NullNode THEN r_err(dest.r, "SERD_ERR_OVERFLOW")
        ELSE IF peek_byte(r) = "dotted"
        THEN r_err(read_PrefixedName([dest EXCEPT !.r = eat_byte_safe(@)],
                                     r.pos - 1).r,
                   "SERD_ERR_BAD_SYNTAX")
        ELSE r_err(dest.r, "SERD_ERR_BAD_SYNTAX")

\* The label has b or B and a digit after the blank prefix.  The text of a
\* node that did not fit is read nevertheless; one whose text did not fit
\* has no digit.
read_BLANK_NODE_LABEL(r) ==
    LET n == push_byte(push_node(eat_byte_safe(r), "B", bprefix_len), 1)
    IN  IF n.node = NullNode
        THEN [n EXCEPT !.st = "SERD_SUCCESS", !.r = Undefined(@)]
        ELSE IF Failed(n.st) THEN [n EXCEPT !.st = "SERD_SUCCESS"]
        ELSE IF peek_byte(r) = "_:b1"
        THEN [n EXCEPT !.st = "SERD_SUCCESS", !.r.seen_genid = TRUE]
        ELSE IF n.r.seen_genid THEN r_err(n.r, "SERD_ERR_ID_CLASH")
        ELSE [n EXCEPT !.st = "SERD_SUCCESS"]

\* The status of the list is dropped, and so is the sink's for End
AnonListNoEnd(res, dest, old_flags) ==
    IF res.ate_dot THEN r_err(res.r, "SERD_ERR_BAD_SYNTAX")
    ELSE eat_byte_check([read_ws_star(res.r) EXCEPT !.flags = old_flags], "]")

AnonList(res, dest, old_flags) ==
    IF res.ate_dot THEN r_err(res.r, "SERD_ERR_BAD_SYNTAX")
    ELSE eat_byte_check(
             [Dispatch(read_ws_star(res.r),
                       Event("end", {}, dest, NullNode, NullNode)).r
                 EXCEPT !.flags = old_flags],
             "]")

AnonBody(r, dest, subject, old_flags, empty) ==
    IF empty THEN eat_byte_check(r, "]")
    ELSE AnonList(
             read_predicateObjectList(
                 [r EXCEPT !.flags = (@ \ {"SERD_LIST_CONT"}) \cup
                               (IF subject THEN {} ELSE {"SERD_ANON_CONT"})],
                 ReadContext(dest, NullNode)),
             dest, old_flags)

AnonEmitted(res, dest, subject, old_flags, empty) ==
    IF Failed(res.st) THEN res
    ELSE AnonBody(res.r, dest, subject, old_flags, empty)

\* The caller keeps *dest whatever the status
AnonOpened(r, ctx, subject, old_flags) ==
    LET empty == peek_byte(r) = "]"
        dest == blank_id([r EXCEPT !.flags = @ \cup
                    {IF empty
                     THEN IF subject THEN "SERD_EMPTY_S" ELSE "SERD_EMPTY_O"
                     ELSE IF subject THEN "SERD_ANON_S_BEGIN"
                          ELSE "SERD_ANON_O_BEGIN"}])
    IN  [(IF ctx.subject # NullNode
          THEN AnonEmitted(emit_statement(dest.r, ctx, dest.node),
                           dest.node, subject, old_flags, empty)
          ELSE AnonBody(dest.r, dest.node, subject, old_flags, empty))
            EXCEPT !.node = dest.node]

\* subject: the node is read as a subject
read_anon(r, ctx, subject) ==
    AnonOpened(read_ws_star(eat_byte_safe(r)), ctx, subject, r.flags)

end_collection(r, st) ==
    IF Failed(st) THEN Res([r EXCEPT !.flags = @ \ {"SERD_LIST_CONT"}], st, FALSE)
    ELSE eat_byte_check([r EXCEPT !.flags = @ \ {"SERD_LIST_CONT"}], ")")

RECURSIVE CollectionAt(_, _, _, _)

\* _:node = _:rest, _:rest = (old)_:node
CollectionRest(res, rest, node) ==
    IF Failed(res.st) THEN res
    ELSE CollectionAt(read_ws_star(res.r), rest, rest, node)

\* _:node rdf:rest _:rest, where rest gets a new label unless the list ends
CollectionLink(r, subject, node, rest) ==
    LET new == IF peek_byte(r) = ")" THEN [Ok(r) EXCEPT !.node = rdf_nil]
               ELSE IF rest = NullNode THEN blank_id(r)
               ELSE set_blank_id(r)
    IN  CollectionRest(
            emit_statement([new.r EXCEPT !.flags = @ \cup {"SERD_LIST_CONT"}],
                           ReadContext(subject, rdf_rest), new.node),
            new.node, node)

CollectionItem(res, subject, node, rest) ==
    IF Failed(res.st) \/ res.ate_dot THEN NoDot(end_collection(res.r, res.st))
    ELSE CollectionLink(read_ws_star(res.r), subject, node, rest)

CollectionAt(r, subject, node, rest) ==
    IF peek_byte(r) = ")" THEN end_collection(r, "SERD_SUCCESS")
    ELSE CollectionItem(read_object(r, ReadContext(subject, rdf_first)),
                        subject, node, rest)

CollectionBegun(r, dest, end) ==
    LET n1 == push_node_padded(r, genid_size, Node("b", 0))
    IN  IF end THEN end_collection(r, "SERD_SUCCESS")
        ELSE IF n1.node = NullNode THEN r_err(n1.r, "SERD_ERR_OVERFLOW")
        ELSE CollectionAt(n1.r, dest, n1.node, NullNode)

CollectionEmitted(res, dest, end) ==
    IF Failed(res.st) THEN res
    ELSE CollectionBegun([res.r EXCEPT !.flags = @ \cup {"SERD_LIST_CONT"}],
                         dest, end)

\* The caller keeps *dest whatever the status
CollectionOpened(r, ctx) ==
    LET end == peek_byte(r) = ")"
        dest == IF end THEN [Ok(r) EXCEPT !.node = rdf_nil] ELSE blank_id(r)
    IN  [(IF ctx.subject # NullNode
          THEN CollectionEmitted(
                   emit_statement(
                       [dest.r EXCEPT !.flags = @ \cup
                           (IF end THEN {} ELSE {"SERD_LIST_O_BEGIN"})],
                       ctx, dest.node),
                   dest.node, end)
          ELSE CollectionBegun(
                   [dest.r EXCEPT !.flags = @ \cup
                       (IF end THEN {} ELSE {"SERD_LIST_S_BEGIN"})],
                   dest.node, end))
            EXCEPT !.node = dest.node]

read_collection(r, ctx) ==
    CollectionOpened(read_ws_star(eat_byte_safe(r)), ctx)

\* simple: the node that was read is the object of a statement to emit
ObjectRead(res, ctx, simple, orig_stack_size) ==
    IF ~Failed(res.st) /\ simple
    THEN [emit_statement(res.r, ctx, res.node)
             EXCEPT !.ate_dot = res.ate_dot,
                    !.r = serd_stack_pop_to(@, orig_stack_size)]
    ELSE [res EXCEPT !.r = serd_stack_pop_to(@, orig_stack_size)]

\* Everywhere it is called, emit is true
read_object(r, ctx) ==
    CASE peek_byte(r) \in {EOF, ")"} -> r_err(r, "SERD_ERR_BAD_SYNTAX")
      [] peek_byte(r) = "[" ->
            ObjectRead(NoDot(read_anon(r, ctx, FALSE)), ctx, FALSE, r.size)
      [] peek_byte(r) = "(" ->
            ObjectRead(NoDot(read_collection(r, ctx)), ctx, FALSE, r.size)
      [] peek_byte(r) \in {"_:b1", "_:B1"} ->
            ObjectRead(read_BLANK_NODE_LABEL(r), ctx,
                       ctx.subject # NullNode, r.size)
      [] peek_byte(r) \in {"iri", "dotted"} ->
            ObjectRead(read_iri(r), ctx, ctx.subject # NullNode, r.size)
      [] peek_byte(r) = "." -> r_err(eat_byte_safe(r), "SERD_ERR_BAD_SYNTAX")
      [] OTHER ->      \* neither a prefixed name nor a boolean
            r_err(push_node(r, "curie", 0).r,
                  IF push_node(r, "curie", 0).node = NullNode
                  THEN "SERD_ERR_OVERFLOW" ELSE "SERD_ERR_BAD_SYNTAX")

RECURSIVE ObjectListLoop(_, _)

ObjectListComma(res, r, ctx) ==
    IF peek_byte(r) = ","
    THEN ObjectListLoop(read_object(read_ws_star(eat_byte_safe(r)), ctx), ctx)
    ELSE [res EXCEPT !.r = r]

\* while (!*ate_dot && eat_delim(reader, ',')) st = read_object(...)
ObjectListLoop(res, ctx) ==
    IF res.ate_dot THEN res ELSE ObjectListComma(res, read_ws_star(res.r), ctx)

ObjectListFirst(res, ctx) ==
    IF Failed(res.st) THEN res ELSE ObjectListLoop(res, ctx)

read_objectList(r, ctx) == ObjectListFirst(read_object(r, ctx), ctx)

RECURSIVE PredicateObjectSemis(_, _, _)
RECURSIVE PredicateObjectLoop(_, _)

PredicateObjectSemiAt(r, ctx, ate_semi) ==
    CASE peek_byte(r) = EOF -> r_err(r, "SERD_ERR_BAD_SYNTAX")
      [] peek_byte(r) \in {".", "]"} -> Ok(r)
      [] peek_byte(r) = ";" -> PredicateObjectSemis(eat_byte_safe(r), ctx, TRUE)
      [] OTHER -> IF ate_semi THEN PredicateObjectLoop(r, ctx)
                  ELSE r_err(r, "SERD_ERR_BAD_SYNTAX")

PredicateObjectSemis(r, ctx, ate_semi) ==
    PredicateObjectSemiAt(read_ws_star(r), ctx, ate_semi)

PredicateObjects(res, ctx) ==
    IF Failed(res.st) \/ res.ate_dot THEN res
    ELSE PredicateObjectSemis(res.r, ctx, FALSE)

\* res.node is ctx.predicate
PredicateVerb(res, ctx) ==
    IF Failed(res.st) THEN res
    ELSE PredicateObjects(
             read_objectList(read_ws_star(res.r),
                             ReadContext(ctx.subject, res.node)),
             ctx)

PredicateObjectLoop(r, ctx) == PredicateVerb(read_verb(r), ctx)

\* Every return pops the stack to where the list found it
read_predicateObjectList(r, ctx) ==
    [PredicateObjectLoop(r, ctx) EXCEPT !.r.size = r.size, !.node = NullNode]

read_subject(r) ==
    CASE peek_byte(r) = "[" ->      \* the status is dropped
            [read_anon(r, ReadContext(NullNode, NullNode), TRUE)
                EXCEPT !.st = "SERD_SUCCESS"]
      [] peek_byte(r) = "(" ->
            read_collection(r, ReadContext(NullNode, NullNode))
      [] peek_byte(r) \in {"_:b1", "_:B1"} -> read_BLANK_NODE_LABEL(r)
      [] OTHER ->
            IF read_iri(r).ate_dot
            THEN r_err(read_iri(r).r, "SERD_ERR_BAD_SYNTAX")
            ELSE read_iri(r)

TriplesRead(res) ==
    IF IsError(res.st) THEN res ELSE [res EXCEPT !.st = "SERD_SUCCESS"]

TriplesAt(r, ctx) ==
    IF peek_byte(r) = "." THEN Res(eat_byte_safe(r), "SERD_FAILURE", TRUE)
    ELSE TriplesRead(read_predicateObjectList(r, ctx))

read_triples(r, ctx) ==
    IF ctx.subject = NullNode THEN Ok(r) ELSE TriplesAt(read_ws_star(r), ctx)

\* The name is tested, the bytes pushed to it and the uri are not; the
\* sink's status is overwritten
read_prefixID(r) ==
    LET pushed == push_node(r, "literal", 0)
        name == push_byte(pushed, r.pos - 1)
        uri == read_IRIREF(name.r)
    IN  IF pushed.node = NullNode THEN r_err(pushed.r, "SERD_ERR_OVERFLOW")
        ELSE eat_byte_check(
                 read_ws_star(Dispatch(uri.r, Event("prefix", {}, name.node,
                                                    NullNode, uri.node)).r),
                 ".")

BaseDispatched(res) ==
    IF Failed(res.st) THEN res
    ELSE eat_byte_check(read_ws_star(res.r), ".")

read_base(r) ==
    LET uri == read_IRIREF(r)
    IN  BaseDispatched(Dispatch(uri.r, Event("base", {}, NullNode, NullNode,
                                             uri.node)))

read_directive(r) ==
    IF peek_byte(r) = "@base" THEN read_base(r) ELSE read_prefixID(r)

DirectiveRead(res) ==
    IF Failed(res.st) THEN res ELSE Ok(read_ws_star(res.r))

StatementTriples(res, s_type) ==
    IF Failed(res.st)
    THEN IF res.st = "SERD_FAILURE" /\ s_type = "[" THEN Ok(res.r)
         ELSE IF res.ate_dot THEN r_err(res.r, "SERD_ERR_BAD_SYNTAX")
         ELSE IF IsError(res.st) THEN NoDot(res)
         ELSE r_err(res.r, "SERD_ERR_BAD_SYNTAX")
    ELSE IF res.ate_dot THEN Ok(res.r)
    ELSE eat_byte_check(read_ws_star(res.r), ".")

\* res.node is ctx.subject
StatementSubject(res, s_type) ==
    IF IsError(res.st) THEN res
    ELSE StatementTriples(
             read_triples(read_ws_star(res.r), ReadContext(res.node, NullNode)),
             s_type)

StatementAt(r) ==
    CASE peek_byte(r) = "NUL" -> Res(eat_byte_safe(r), "SERD_FAILURE", FALSE)
      [] peek_byte(r) = EOF -> Res(r, "SERD_FAILURE", FALSE)
      [] peek_byte(r) \in {"@prefix", "@base"} -> DirectiveRead(read_directive(r))
      [] OTHER -> StatementSubject(read_subject(r), peek_byte(r))

\* flags = 0
read_n3_statement(r) == StatementAt(read_ws_star([r EXCEPT !.flags = {}]))

\* Never returns when the byte it waits for does not come and the source
\* has nothing more to give: peek_byte is then EOF for ever
RECURSIVE skip_until(_)
skip_until(r) ==
    CASE r.crashed \/ peek_byte(r) \in {"NUL", "nl"} -> r
      [] peek_byte(r) = EOF /\ r.pos > Len(input.stream) -> [r EXCEPT !.hung = TRUE]
      [] OTHER -> skip_until(eat_byte_safe(r))

RECURSIVE read_turtleTrigDoc(_)

DocSkipped(r) ==
    IF r.hung THEN Res(r, "NO_RETURN", FALSE) ELSE read_turtleTrigDoc(r)

DocStatement(res, orig_stack_size) ==
    IF ~IsError(res.st)
    THEN read_turtleTrigDoc(serd_stack_pop_to(res.r, orig_stack_size))
    ELSE IF input.strict
    THEN [res EXCEPT !.r = serd_stack_pop_to(@, orig_stack_size)]
    ELSE DocSkipped(serd_stack_pop_to(skip_until(res.r), orig_stack_size))

read_turtleTrigDoc(r) ==
    IF r.eof \/ r.crashed THEN Ok(r)
    ELSE DocStatement(read_n3_statement(r), r.size)

----------------------------------------------------------------------------
(* The reader's interface (src/reader.c) *)

PrepareReturned(res) ==
    IF res.st = "SERD_FAILURE" THEN [res EXCEPT !.r.eof = TRUE] ELSE res

serd_reader_prepare(r) == PrepareReturned(serd_byte_source_prepare(r))

DocumentPreparedOrNot(res) == read_turtleTrigDoc(res.r)

DocumentPrepared(res) ==
    IF Failed(res.st) THEN res ELSE read_turtleTrigDoc(res.r)

serd_reader_read_document(r) ==
    IF ~r.prepared THEN DocumentPrepared(serd_reader_prepare(r))
    ELSE read_turtleTrigDoc(r)

ChunkRead(r, st) ==
    IF Failed(st) THEN Res(r, st, FALSE) ELSE read_n3_statement(r)

ChunkStartedNoSkip(res) == ChunkRead(res.r, res.st)

\* Skip leading null byte, for reading from a null-delimited socket
ChunkStarted(res) ==
    ChunkRead(IF peek_byte(res.r) = "NUL" THEN eat_byte_safe(res.r) ELSE res.r,
              res.st)

serd_reader_read_chunk_sticky(r) ==
    ChunkStarted(IF ~r.prepared THEN serd_reader_prepare(r) ELSE Ok(r))

serd_reader_read_chunk(r) ==
    ChunkStarted(IF ~r.prepared THEN serd_reader_prepare(r)
                 ELSE IF r.eof THEN AdvanceStatus(serd_byte_source_advance(r))
                 ELSE Ok(r))

serd_reader_new ==
    [prepared |-> FALSE, pos |-> 1, byte |-> "NUL", eof |-> FALSE,
     flags |-> {}, next_id |-> 1, seen_genid |-> FALSE, size |-> 0,
     ev |-> <<>>, errSt |-> "SERD_SUCCESS", errEv |-> 0, hung |-> FALSE,
     crashed |-> FALSE, full |-> FALSE]

----------------------------------------------------------------------------------------------------------------------------------------
(* The reader as a state machine: a caller reads one input through one     *)
(* reader, by chunks, as a document, or both.                              *)

\* The first item of the stream that the reader has not gone past
Cursor(r) ==
    IF ~r.prepared THEN 1 ELSE IF r.eof THEN r.pos ELSE r.pos - 1

\* The reader as a call finds it: no error raised yet
Called(r) == [r EXCEPT !.errSt = "SERD_SUCCESS", !.errEv = 0, !.full = FALSE]

ReaderInitOn(inputs) ==
    /\ input \in inputs
    /\ reader = serd_reader_new
    /\ ret = [op |-> "new", st |-> "SERD_SUCCESS", from |-> 1, ev0 |-> 0,
              prev |-> <<"none", "SERD_SUCCESS">>]
    /\ enabled = {}
    /\ index = [i \in 0..(NUM_ORDERS - 1) |-> {}]
    /\ version = 0
    /\ iters = [k \in Slots |-> NullIter]
    /\ live = {}
    /\ last = <<>>
    /\ writer = <<>>
    /\ wrote = <<>>
    /\ env = <<>>
    /\ nodes = <<>>
    /\ told = <<>>

ReaderInit == ReaderInitOn(Inputs)

\* No call follows one that never returns
Returns == ret.st # "NO_RETURN"

\* What a call leaves in the reader and in the history: the call, its
\* status, where in the stream and in the events it began, and the call
\* before it with its status.  A call that was killed does not return.
ReaderReturned(res, op) ==
    /\ reader' = res.r
    /\ ret' = [op |-> op,
               st |-> IF res.r.crashed THEN "NO_RETURN" ELSE res.st,
               from |-> Cursor(reader),
               ev0 |-> Len(reader.ev), prev |-> <<ret.op, ret.st>>]
    /\ UNCHANGED input
    /\ UNCHANGED <<storeVars, writerVars, envVars>>

\* read_chunk leaves the subject of what it read on the stack, which only
\* read_document pops: the caller reads while a statement per unit fits
StackLeft == reader.size <= 5 * MaxUnits

ReadChunk ==
    /\ Returns
    /\ StackLeft
    /\ ReaderReturned(serd_reader_read_chunk(Called(reader)), "read_chunk")

ReadDocument ==
    /\ Returns
    /\ StackLeft
    /\ ReaderReturned(serd_reader_read_document(Called(reader)),
                      "read_document")

ReaderNext ==
    \/ ReadChunk
    \/ ReadDocument

SpecReader == ReaderInit /\ [][ReaderNext]_vars

----------------------------------------------------------------------------
(* Properties of the reader *)

\* The well-formed units and the events each one is to produce
UnitEvents(unit) ==
    CASE unit = <<"iri", "iri", "iri", ".">> -> <<"statement">>
      [] unit = <<"iri", "iri", "iri", ",", "iri", ";", "iri", "dotted">> ->
             <<"statement", "statement", "statement">>
      [] unit = <<"iri", "iri", "[", "iri", "(", "iri", ")", "]", ".">> ->
             <<"statement", "statement", "statement", "statement", "end">>
      [] unit = <<"[", "iri", "iri", "]", "iri", "iri", ".">> ->
             <<"statement", "end", "statement">>
      [] unit = <<"@prefix", ".">> -> <<"prefix">>
      [] unit = <<"@base", ".">> -> <<"base">>
      [] OTHER -> <<>>

WellFormed == {unit \in Units : UnitEvents(unit) # <<>>}

Statement(unit) == unit \in WellFormed /\ Head(unit) \notin {"@prefix", "@base"}

\* The stream from its item `from` on
Rest(from) == SubSeq(input.stream, from, Len(input.stream))

RECURSIVE SkipWs(_)
SkipWs(s) == IF s # <<>> /\ Head(s) = "nl" THEN SkipWs(Tail(s)) ELSE s

SkipNul(s) == IF s # <<>> /\ Head(s) = "NUL" THEN Tail(s) ELSE s

\* What a reader meets first in s: a byte, or the end of the input, which
\* is the end of the stream or a read that returns nothing
Meets(s) == IF s = <<>> \/ Head(s) = GAP THEN "end" ELSE Head(s)

StartsWith(s, unit) ==
    Len(s) >= Len(unit) /\ SubSeq(s, 1, Len(unit)) = unit

\* The unit s starts with, <<>> if it starts with none
UnitAt(s) ==
    IF \E unit \in WellFormed : StartsWith(s, unit)
    THEN CHOOSE unit \in WellFormed : StartsWith(s, unit)
    ELSE <<>>

\* The kinds of the events the last call dispatched
Dispatched ==
    [i \in 1..(Len(reader.ev) - ret.ev0) |-> reader.ev[ret.ev0 + i].kind]

\* The sink accepts the n events that follow those of before the last call
SinkAccepts(n) == input.failAt \notin (ret.ev0 + 1)..(ret.ev0 + n)

\* What the last call went past, without the whitespace around it and the
\* empty read after it
RECURSIVE DropWsBack(_)
DropWsBack(s) ==
    IF s # <<>> /\ s[Len(s)] \in {"nl", GAP}
    THEN DropWsBack(SubSeq(s, 1, Len(s) - 1)) ELSE s

Handled == SubSeq(input.stream, ret.from, Cursor(reader) - 1)

ChunkCalled == ret.op = "read_chunk"

\* What the last call had before it once a NUL at the very start is skipped
\* and, after it, leading whitespace
ChunkInput == SkipWs(SkipNul(Rest(ret.from)))

\* C8 (as stated): a read_chunk call that returns success went past one
\* well-formed unit and dispatched that unit's events; a call that returns
\* failure dispatched nothing; a call that, after leading whitespace, meets a
\* NUL or the end of the input returns failure and dispatches nothing, and so
\* does every call once the input is exhausted.
ChunkFailsAtAnyNul ==
    ChunkCalled =>
        /\ ret.st = "SERD_SUCCESS" =>
               /\ DropWsBack(SkipWs(SkipNul(Handled))) \in WellFormed
               /\ Dispatched = UnitEvents(DropWsBack(SkipWs(SkipNul(Handled))))
        /\ ret.st = "SERD_FAILURE" => Dispatched = <<>>
        /\ Meets(SkipWs(Rest(ret.from))) \in {"NUL", "end"} =>
               ret.st = "SERD_FAILURE" /\ Dispatched = <<>>
        /\ ret.from > Len(input.stream) => ret.st = "SERD_FAILURE"

\* C8 (amended): a read_chunk call first skips a NUL at the very start of
\* what it is given.  A call that returns success went past one well-formed
\* unit and dispatched that unit's events; a call that returns failure
\* dispatched nothing; a call that then, after leading whitespace, meets a
\* NUL or the end of the input returns failure and dispatches nothing, and
\* so does every call once the input is exhausted; a call that then meets a
\* well-formed unit whose events the sink accepts returns success.
ChunkReadsOneUnit ==
    ChunkCalled =>
        /\ ret.st = "SERD_SUCCESS" =>
               /\ DropWsBack(SkipWs(SkipNul(Handled))) \in WellFormed
               /\ Dispatched = UnitEvents(DropWsBack(SkipWs(SkipNul(Handled))))
        /\ ret.st = "SERD_FAILURE" => Dispatched = <<>>
        /\ Meets(ChunkInput) \in {"NUL", "end"} =>
               ret.st = "SERD_FAILURE" /\ Dispatched = <<>>
        /\ ret.from > Len(input.stream) => ret.st = "SERD_FAILURE"
        /\ (/\ UnitAt(ChunkInput) # <<>>
            /\ SinkAccepts(Len(UnitEvents(UnitAt(ChunkInput))))) =>
               /\ ret.st = "SERD_SUCCESS"
               /\ Dispatched = UnitEvents(UnitAt(ChunkInput))

\* A call found a NUL at its very start, skipped it and read the unit
\* after it
SkippedLeadingNul ==
    /\ ChunkCalled
    /\ ret.st = "SERD_SUCCESS"
    /\ Meets(Rest(ret.from)) = "NUL"
    /\ Dispatched # <<>>

\* C9: when a read_chunk call has returned failure because the source had
\* no data, and the source then supplies a well-formed statement whose
\* events the sink accepts, the next read_chunk call returns success and
\* dispatches that statement's events.
ChunkResumesAfterNoData ==
    (/\ ChunkCalled
     /\ ret.prev = <<"read_chunk", "SERD_FAILURE">>
     /\ ret.from > 1
     /\ input.stream[ret.from - 1] = GAP
     /\ Statement(UnitAt(Rest(ret.from)))
     /\ SinkAccepts(Len(UnitEvents(UnitAt(Rest(ret.from)))))) =>
        /\ ret.st = "SERD_SUCCESS"
        /\ Dispatched = UnitEvents(UnitAt(Rest(ret.from)))

\* A call returned failure at an empty read and the next one read the
\* statement that came after
ResumedAfterNoData ==
    /\ ChunkCalled
    /\ ret.prev = <<"read_chunk", "SERD_FAILURE">>
    /\ ret.from > 1
    /\ input.stream[ret.from - 1] = GAP
    /\ ret.st = "SERD_SUCCESS"
    /\ Dispatched # <<>>

\* C10: in strict mode, when an error is raised while read_document reads,
\* by the reader or by the sink for an event, at any depth, read_document
\* returns the status of that error and no event is dispatched after it.
StrictErrorTerminates ==
    (/\ ret.op = "read_document"
     /\ input.strict
     /\ reader.errSt # "SERD_SUCCESS") =>
        /\ ret.st = reader.errSt
        /\ Len(reader.ev) = reader.errEv

----------------------------------------------------------------------------
(* One document at a time, on stacks of every size.                        *)
(*                                                                         *)
(* "_:b1" and "_:B1" are blank node labels as the user writes them.        *)

MaxStack == 30      \* the stack left for parsing has at most this many cells

AnonSubjectDoc == <<"[", "iri", "iri", "]", "iri", "iri", ".">>

AnonObjectDoc == <<"iri", "iri", "[", "iri", "iri", "]", ".">>

ListObjectDoc == <<"iri", "iri", "(", "iri", "iri", "iri", ")", ".">>

ListSubjectDoc == <<"(", "iri", "iri", ")", "iri", "iri", ".">>

SimpleDoc == <<"iri", "iri", "iri", ".", "nl">>

Documents ==
    { <<>>, AnonSubjectDoc, AnonObjectDoc, ListObjectDoc, ListSubjectDoc,
      SimpleDoc,
      <<"iri", "iri", "dotted">>,
      <<"iri", "iri", "[", "]", ",", "(", ")", ".">>,
      <<"@prefix", ".">>,
      <<"@base", ".">> }

LabelUnderAnonDoc == <<"_:b1", "iri", "[", "iri", "iri", "]", ".">>

LabelAfterAnonDoc == <<"[", "iri", "iri", "]", "iri", "_:b1", ".">>

BothCasesDoc == <<"_:b1", "iri", "_:B1", ".", "nl">>

LabelledDocuments ==
    { LabelUnderAnonDoc, LabelAfterAnonDoc, BothCasesDoc,
      <<"_:B1", "iri", "_:b1", ".">>,
      <<"_:B1", "iri", "[", "iri", "iri", "]", ".">> }

\* Every document on every stack, with no blank prefix; the documents with
\* labels on an ample stack, with a blank prefix and without
ParseInputs ==
    [stream : Documents, strict : BOOLEAN, failAt : {0},
     stack : 0..MaxStack, bprefix : {FALSE}, nullTraps : BOOLEAN]
    \cup
    [stream : LabelledDocuments, strict : BOOLEAN, failAt : {0},
     stack : {AmpleStack}, bprefix : BOOLEAN, nullTraps : {TRUE}]

SpecParse == ReaderInitOn(ParseInputs) /\ [][ReaderNext]_vars

----------------------------------------------------------------------------
(* Properties of the parser *)

\* The last call was the first one made on the reader
FirstCall(op) == ret.op = op /\ ret.prev[1] = "new"

\* C11: a document read in which an overflow or an id clash is the first
\* error raised ends with that status, in lax mode as in strict mode
LaxStopsAtOverflowAndClash ==
    (/\ ret.op = "read_document"
     /\ ~input.strict
     /\ reader.errSt \in {"SERD_ERR_OVERFLOW", "SERD_ERR_ID_CLASH"})
    => ret.st = reader.errSt

SerdStatement(flags, s, p, o) == Event("statement", flags, s, p, o)

End(node) == Event("end", {}, node, NullNode, NullNode)

Iri(id) == Node("iri", id)

Blank(id) == Node("b", id)

\* The first call made on the reader returned success, on a stack with room
\* for every document
ReadWell ==
    ret.prev[1] = "new" /\ ret.st = "SERD_SUCCESS" /\ input.stack >= MaxStack

\* The blank node that the i-th event opens, NullNode if it opens none
Opened(i) ==
    IF "SERD_ANON_S_BEGIN" \in reader.ev[i].flags THEN reader.ev[i].s
    ELSE IF "SERD_ANON_O_BEGIN" \in reader.ev[i].flags THEN reader.ev[i].o
    ELSE NullNode

\* C12: [ :p :o ] :q :r . is read as Statement(anon-S-begin, b1, :p, :o),
\* End(b1), Statement(b1, :q, :r) and nothing else, :s :p [ :q :o ] . as
\* Statement(anon-O-begin, :s, :p, b1), the inner statement with b1 as its
\* subject, End(b1); and whatever is read, a statement that opens an
\* anonymous node names a generated blank no earlier event names, which
\* exactly one End event, a later one, names
AnonGroupingEvents ==
    ReadWell =>
        /\ input.stream = AnonSubjectDoc =>
              reader.ev = << SerdStatement({"SERD_ANON_S_BEGIN"},
                                       Blank(1), Iri(2), Iri(3)),
                             End(Blank(1)),
                             SerdStatement({}, Blank(1), Iri(5), Iri(6)) >>
        /\ input.stream = AnonObjectDoc =>
              reader.ev = << SerdStatement({"SERD_ANON_O_BEGIN"},
                                       Iri(1), Iri(2), Blank(1)),
                             SerdStatement({"SERD_ANON_CONT"},
                                       Blank(1), Iri(4), Iri(5)),
                             End(Blank(1)) >>
        /\ \A i \in DOMAIN reader.ev :
              Opened(i) # NullNode =>
                  /\ Opened(i).type = "b"
                  /\ \A j \in 1..(i - 1) :
                        Opened(i) \notin {reader.ev[j].s, reader.ev[j].o}
                  /\ \E j \in (i + 1)..Len(reader.ev) :
                        /\ reader.ev[j] = End(Opened(i))
                        /\ \A k \in DOMAIN reader.ev :
                              reader.ev[k] = End(Opened(i)) => k = j

\* C12 witness: the anonymous subject was read, and its three events sent
AnonSubjectRead ==
    /\ ReadWell
    /\ input.stream = AnonSubjectDoc
    /\ Len(reader.ev) = 3
    /\ reader.ev[2].kind = "end"

\* The subjects, predicates and objects of the statements dispatched
Triples == [i \in DOMAIN reader.ev |->
               <<reader.ev[i].kind, reader.ev[i].s, reader.ev[i].p, reader.ev[i].o>>]

\* C13: :s :p ( e1 e2 e3 ) . is read as Statement(list-O-begin, :s, :p, b1),
\* then for each element an rdf:first and an rdf:rest statement, chaining b1
\* to b2 to b3 to rdf:nil, and finally End(b1)
ListEventsThenEnd ==
    (ReadWell /\ input.stream = ListObjectDoc) =>
        /\ reader.ev[1] =
              SerdStatement({"SERD_LIST_O_BEGIN"}, Iri(1), Iri(2), Blank(1))
        /\ Triples =
              << <<"statement", Iri(1), Iri(2), Blank(1)>>,
                 <<"statement", Blank(1), rdf_first, Iri(4)>>,
                 <<"statement", Blank(1), rdf_rest, Blank(2)>>,
                 <<"statement", Blank(2), rdf_first, Iri(5)>>,
                 <<"statement", Blank(2), rdf_rest, Blank(3)>>,
                 <<"statement", Blank(3), rdf_first, Iri(6)>>,
                 <<"statement", Blank(3), rdf_rest, rdf_nil>>,
                 <<"end", Blank(1), NullNode, NullNode>> >>

\* The events the last call dispatched
Sent == SubSeq(reader.ev, ret.ev0 + 1, Len(reader.ev))

\* An event that lacks a node it is to carry
Lacking(event) ==
    CASE event.kind = "statement" -> NullNode \in {event.s, event.p, event.o}
      [] event.kind = "prefix" -> NullNode \in {event.s, event.o}
      [] event.kind = "base" -> event.o = NullNode
      [] OTHER -> event.s = NullNode

\* C14: a strict document read during which the stack had no room for a
\* node or for a byte of one returns SERD_ERR_OVERFLOW, and dispatches no
\* event that lacks a node
StackTooSmallIsOverflow ==
    (ret.op = "read_document" /\ input.strict /\ reader.full) =>
        /\ ret.st = "SERD_ERR_OVERFLOW"
        /\ \A i \in DOMAIN Sent : ~Lacking(Sent[i])

ClashUnlessPrefixed ==
    (FirstCall("read_document") /\ input.strict) =>
        /\ (/\ ~input.bprefix
            /\ input.stream \in {LabelUnderAnonDoc, LabelAfterAnonDoc})
           => ret.st = "SERD_ERR_ID_CLASH"
        /\ input.bprefix => reader.errSt # "SERD_ERR_ID_CLASH"

----------------------------------------------------------------------------
(* The stack between calls, the end of a lax read, and blank labels *)

\* C26: a call that returns, having read a statement or a directive or
\* having failed to, leaves the stack at the size it found it at
StackSizeKept ==
    [][ret'.st # "NO_RETURN" => reader'.size = reader.size]_vars

\* What holds of it: a call of read_document that returns leaves the stack
\* at the size it found it at
DocumentKeepsStack ==
    [][ret'.op = "read_document" /\ ret'.st # "NO_RETURN"
           => reader'.size = reader.size]_vars

\* C27: a lax read_document that skips after an error comes to the next
\* newline or to the end of the input and goes on from there: it never
\* stays in skip_until() for ever
LaxSkipTerminates ==
    ret.op = "read_document" /\ ~input.strict => ~reader.hung

\* C30: in every document of LabelledDocuments the subject and the object
\* of the first statement are two blank nodes that the input tells apart,
\* by two labels or by a label and a pair of brackets; unless the read
\* raises SERD_ERR_ID_CLASH, no statement is dispatched with one node as
\* its subject and its object
DistinctBlanksStayDistinct ==
    (/\ FirstCall("read_document")
     /\ input.stream \in LabelledDocuments
     /\ reader.errSt # "SERD_ERR_ID_CLASH"
     /\ ret.st # "SERD_ERR_ID_CLASH")
    => \A i \in DOMAIN reader.ev :
           reader.ev[i].kind = "statement" => reader.ev[i].s # reader.ev[i].o

----------------------------------------------------------------------------
(***************************************************************************)
(* The writer (src/src/writer.c): a sink of events that writes text.  The  *)
(* output is a sequence of tokens, one for every call of sink(): a         *)
(* separator string, a node's text, a newline, a tab.  Nodes are a type    *)
(* and a string; the environment is whether it has a base URI.  The style  *)
(* of the writer is none or SERD_STYLE_BULK, and no node is a CURIE.       *)
(***************************************************************************)

MaxEvents == 3      \* the writer is given at most this many events
MaxRoom == 2        \* the stream takes this many tokens at most, then none
BlockSize == 4      \* the block of a writer with SERD_STYLE_BULK, in tokens

\* A stream that never fails within MaxEvents events
AmpleRoom == 40 * (MaxEvents + 1)

WNode(type, str) == [type |-> type, str |-> str]
serd_new_uri(str) == WNode("SERD_URI", str)
serd_new_blank(str) == WNode("SERD_BLANK", str)
serd_new_string(str) == WNode("SERD_LITERAL", str)

\* A NULL node pointer, and a node that memset() has zeroed
NoNode == WNode("NULL", "")
Nothing == WNode("SERD_NOTHING", "")

NS_RDF_nil == "rdf:nil"
NS_RDF_first == "rdf:first"
NS_RDF_type == "rdf:type"

WriteContext(graph, subject, predicate) ==
    [graph |-> graph, subject |-> subject, predicate |-> predicate]

WRITE_CONTEXT_NULL == WriteContext(NoNode, NoNode, NoNode)

\* rules[]: the string of a separator, and where a newline goes with it
rules ==
    [SEP_NONE        |-> <<"",       0, 0, 0>>,
     SEP_END_S       |-> <<" .\n\n", 0, 0, 0>>,
     SEP_END_P       |-> <<" ;",     0, 1, 1>>,
     SEP_END_O       |-> <<" ,",     0, 1, 0>>,
     SEP_S_P         |-> <<"",       0, 1, 0>>,
     SEP_P_O         |-> <<" ",      0, 0, 0>>,
     SEP_ANON_BEGIN  |-> <<"[",      0, 1, 1>>,
     SEP_ANON_END    |-> <<"]",      1, 0, 0>>,
     SEP_LIST_BEGIN  |-> <<"(",      0, 0, 0>>,
     SEP_LIST_SEP    |-> <<"",       0, 1, 0>>,
     SEP_LIST_END    |-> <<")",      1, 0, 0>>,
     SEP_GRAPH_BEGIN |-> <<" {",     0, 1, 1>>,
     SEP_GRAPH_END   |-> <<" }",     0, 1, 1>>,
     SEP_URI_BEGIN   |-> <<"<",      0, 0, 0>>,
     SEP_URI_END     |-> <<">",      0, 0, 0>>]

supports_abbrev_any(w) == TRUE

supports_abbrev(w) == w.syntax \in {"SERD_TURTLE", "SERD_TRIG"}

supports_uriref(w) == w.syntax \in {"SERD_TURTLE", "SERD_TRIG"}

\* ctx(): the node of the context, or NULL if there is none or it is zeroed
ctx(w, field) ==
    LET node == CASE field = "SERD_SUBJECT" -> w.context.subject
                  [] field = "SERD_PREDICATE" -> w.context.predicate
                  [] field = "SERD_GRAPH" -> w.context.graph
                  [] OTHER -> NoNode
    IN IF node # NoNode /\ node.type # "SERD_NOTHING" THEN node ELSE NoNode

serd_node_equals_never(a, b) == FALSE

serd_node_equals(a, b) ==
    \/ a = b
    \/ a # NoNode /\ b # NoNode /\ a = b

\* serd_node_set(): a copy of src, or the old node zeroed if src is NULL
serd_node_set(dst, src) ==
    IF src # NoNode THEN src ELSE IF dst # NoNode THEN Nothing ELSE dst

\* The caller's write function: the stream takes what it has room for and
\* returns how much that was
Stream(w, tokens) ==
    LET room == w.room - Len(w.out)
        n == IF Len(tokens) <= room THEN Len(tokens) ELSE room
    IN [w EXCEPT !.out = @ \o SubSeq(tokens, 1, n),
                 !.written = (n = Len(tokens)),
                 !.short = @ \/ n < Len(tokens)]

\* A byte sink without a block hands every write to the stream and returns
\* what it returns; one with a block fills it, writes it out whenever it is
\* full, and returns the length it was given
serd_byte_sink_write(w, token) ==
    IF w.block_size = 1 THEN Stream(w, <<token>>)
    ELSE IF Len(w.buf) + 1 = w.block_size
         THEN [Stream(w, Append(w.buf, token)) EXCEPT !.buf = <<>>,
                                                      !.written = TRUE]
         ELSE [w EXCEPT !.buf = Append(@, token), !.written = TRUE]

serd_byte_sink_flush(w) ==
    IF w.block_size > 1 /\ w.buf # <<>>
    THEN [Stream(w, w.buf) EXCEPT !.buf = <<>>]
    ELSE w

sink(w, token) == serd_byte_sink_write(w, token)

RECURSIVE Sinks(_, _)
\* One call of sink() after another
Sinks(w, tokens) ==
    IF tokens = <<>> THEN w ELSE Sinks(sink(w, Head(tokens)), Tail(tokens))

\* What write_newline() writes: a newline and a tab for every level
Newline(w) == <<"\n">> \o [i \in 1..w.indent |-> "\t"]

write_newline(w) == Sinks(w, Newline(w))

\* What write_sep() writes: the newline before the separator, its string,
\* and the newline or the space after it
SepTokens(w, rule) ==
    (IF rule[2] = 1 THEN Newline(w) ELSE <<>>)
    \o (IF rule[1] # "" THEN <<rule[1]>> ELSE <<>>)
    \o (IF \/ w.last_sep # "SEP_NONE" /\ rule[4] = 1
           \/ w.last_sep = "SEP_NONE" /\ rule[3] = 1
        THEN Newline(w)
        ELSE IF w.last_sep # "SEP_NONE" /\ rule[3] = 1 THEN <<" ">>
        ELSE <<>>)

write_sep(w, sep) ==
    [Sinks(w, SepTokens(w, rules[sep])) EXCEPT !.last_sep = sep]

\* write_sep() under a condition
SepIf(w, cond, sep) == IF cond THEN write_sep(w, sep) ELSE w

ZeroNode(node) == IF node # NoNode THEN Nothing ELSE node

reset_context(w, graph) ==
    [w EXCEPT !.context.graph = IF graph THEN ZeroNode(@) ELSE @,
              !.context.subject = ZeroNode(@),
              !.context.predicate = ZeroNode(@),
              !.empty = FALSE]

is_inline_start(w, field, flags) ==
    /\ supports_abbrev(w)
    /\ \/ field = "SERD_SUBJECT" /\ "SERD_ANON_S_BEGIN" \in flags
       \/ field = "SERD_OBJECT" /\ "SERD_ANON_O_BEGIN" \in flags

\* What a write_*() function leaves in the writer, and what it returns
Wrote(w, returned) == [w |-> w, ret |-> returned]

\* A plain literal, without language or datatype
write_literal(w, node, flags) ==
    Wrote(Sinks(w, <<"\"", node.str, "\"">>), TRUE)

serd_uri_string_has_scheme(str) == str # "rel"

\* The writer after a call of sink() whose result is what is returned
Sunk(w) == Wrote(w, w.written)

\* write_uri_node() after it has begun an anonymous node, if it had to
UriNode(w, node, field, flags) ==
    IF supports_abbrev(w) /\ field = "SERD_PREDICATE"
       /\ node.str = NS_RDF_type
    THEN Sunk(sink(w, "a"))
    ELSE IF supports_abbrev(w) /\ node.str = NS_RDF_nil
    THEN Sunk(sink(w, "()"))
    ELSE IF ~serd_uri_string_has_scheme(node.str) /\ ~supports_uriref(w)
            /\ ~w.base
    THEN Wrote(w, FALSE)
    ELSE Wrote(Sinks(write_sep(sink(write_sep(w, "SEP_URI_BEGIN"), node.str),
                               "SEP_URI_END"),
                     IF is_inline_start(w, field, flags)
                     THEN <<" ;">> \o Newline(w) ELSE <<>>), TRUE)

write_uri_node(w, node, field, flags) ==
    UriNode(IF is_inline_start(w, field, flags)
            THEN sink(write_sep([w EXCEPT !.indent = @ + 1],
                                "SEP_ANON_BEGIN"), "== ")
            ELSE w, node, field, flags)

write_blank(w, node, field, flags) ==
    IF supports_abbrev(w) /\ is_inline_start(w, field, flags)
    THEN Wrote(write_sep([w EXCEPT !.indent = @ + 1], "SEP_ANON_BEGIN"), TRUE)
    ELSE IF supports_abbrev(w) /\ field = "SERD_SUBJECT"
            /\ "SERD_LIST_S_BEGIN" \in flags
    THEN Wrote(write_sep([w EXCEPT !.list_subj = node,
                                   !.list_depth = @ + 1,
                                   !.indent = @ + 1], "SEP_LIST_BEGIN"), TRUE)
    ELSE IF supports_abbrev(w) /\ field = "SERD_OBJECT"
            /\ "SERD_LIST_O_BEGIN" \in flags
    THEN Wrote(write_sep([w EXCEPT !.indent = @ + 1,
                                   !.list_depth = @ + 1], "SEP_LIST_BEGIN"),
               TRUE)
    ELSE IF supports_abbrev(w)
            /\ \/ field = "SERD_SUBJECT" /\ "SERD_EMPTY_S" \in flags
               \/ field = "SERD_OBJECT" /\ "SERD_EMPTY_O" \in flags
    THEN Sunk(sink(w, "[]"))
    ELSE Wrote(Sinks(w, <<"_:", node.str>>), TRUE)

write_node(w, node, field, flags) ==
    LET res == CASE node.type = "SERD_LITERAL" -> write_literal(w, node, flags)
                 [] node.type = "SERD_URI" ->
                        write_uri_node(w, node, field, flags)
                 [] node.type = "SERD_BLANK" ->
                        write_blank(w, node, field, flags)
                 [] OTHER -> Wrote(w, FALSE)
    IN [res EXCEPT !.w.last_sep = "SEP_NONE"]

is_resource(node) ==
    node # NoNode /\ node.type \in {"SERD_URI", "SERD_CURIE", "SERD_BLANK"}

write_pred(w, flags, pred) ==
    [write_sep(write_node(w, pred, "SERD_PREDICATE", flags).w, "SEP_P_O")
        EXCEPT !.context.predicate = serd_node_set(@, pred)]

write_list_obj(w, flags, predicate, object) ==
    IF object.str = NS_RDF_nil
    THEN Wrote(write_sep([w EXCEPT !.indent = @ - 1], "SEP_LIST_END"), TRUE)
    ELSE IF predicate.str = NS_RDF_first
    THEN Wrote(write_node(write_sep(w, "SEP_LIST_SEP"), object,
                          "SERD_OBJECT", flags).w, FALSE)
    ELSE Wrote(w, FALSE)

\* What an event leaves in the writer, and the status it returns
Done(w, st) == [w |-> w, st |-> st]

IsFlat(w) == w.syntax \in {"SERD_NTRIPLES", "SERD_NQUADS"}

\* serd_writer_write_statement() in NTriples and NQuads, node by node: a
\* node follows a space if the node before it was written
FlatNode(res, node, field, flags) ==
    IF ~res.ret THEN res
    ELSE write_node(sink(res.w, " "), node, field, flags)

FlatGraph(res, flags, graph) ==
    IF res.w.syntax = "SERD_NQUADS" /\ graph # NoNode
    THEN FlatNode(res, graph, "SERD_GRAPH", flags)
    ELSE res

FlatEnd(res) ==
    IF ~res.ret THEN Done(res.w, "SERD_ERR_UNKNOWN")
    ELSE Done(sink(res.w, " .\n"), "SERD_SUCCESS")

FlatStatement(w, flags, S) ==
    FlatEnd(FlatGraph(
        FlatNode(FlatNode(write_node(w, S.s, "SERD_SUBJECT", flags),
                          S.p, "SERD_PREDICATE", flags),
                 S.o, "SERD_OBJECT", flags),
        flags, S.g))

\* The new graph begins with its name
GraphNamed(named, graph) ==
    IF ~named.ret THEN named
    ELSE Wrote([write_sep([named.w EXCEPT !.indent = @ + 1],
                          "SEP_GRAPH_BEGIN")
                   EXCEPT !.context.graph = serd_node_set(@, graph)], TRUE)

\* The statement is in another graph than the one before it: the open
\* statement and graph end, and the new graph begins
StatementGraph(w, flags, graph) ==
    LET closed ==
            reset_context(
                SepIf(SepIf([w EXCEPT !.indent = 0],
                            ctx(w, "SERD_SUBJECT") # NoNode, "SEP_END_S"),
                      ctx(w, "SERD_GRAPH") # NoNode, "SEP_GRAPH_END"), TRUE)
    IN IF ~(\/ graph # NoNode /\ ~serd_node_equals(graph, w.context.graph)
            \/ graph = NoNode /\ ctx(w, "SERD_GRAPH") # NoNode)
       THEN Wrote(w, TRUE)
       ELSE IF graph = NoNode THEN Wrote(closed, TRUE)
       ELSE GraphNamed(write_node(closed, graph, "SERD_GRAPH", flags), graph)

\* The statement continues a list: ret is whether the list has ended
ListEnded(l) ==
    IF ~l.ret THEN l
    ELSE IF l.w.list_depth - 1 = 0 /\ l.w.list_subj # NoNode
    THEN Wrote([reset_context(l.w, FALSE)
                   EXCEPT !.list_depth = @ - 1,
                          !.context.subject = l.w.list_subj,
                          !.list_subj = NoNode], TRUE)
    ELSE Wrote([l.w EXCEPT !.list_depth = @ - 1], TRUE)

\* The new subject, unless the statement continues an anonymous node
SubjectNamed(ended, flags, S) ==
    IF "SERD_ANON_CONT" \notin flags
    THEN write_sep([write_node(ended, S.s, "SERD_SUBJECT", flags).w
                       EXCEPT !.indent = @ + 1], "SEP_S_P")
    ELSE [ended EXCEPT !.indent = @ + 1]

\* The context of the new subject, its predicate and its object
SubjectSet(subject, flags, S) ==
    LET set == [reset_context(subject, FALSE)
                   EXCEPT !.context.subject = serd_node_set(@, S.s)]
    IN write_node(IF "SERD_LIST_S_BEGIN" \notin flags
                  THEN write_pred(set, flags, S.p) ELSE set,
                  S.o, "SERD_OBJECT", flags).w

\* The statement has another subject than the one before it
StatementSubjectNew(w, flags, S) ==
    SubjectSet(
        SubjectNamed(
            IF ctx(w, "SERD_SUBJECT") # NoNode
            THEN SepIf([w EXCEPT !.indent = @ - 1], w.anon_stack = <<>>,
                       "SEP_END_S")
            ELSE SepIf(w, ~w.empty, "SEP_S_P"),
            flags, S),
        flags, S)

\* The statement after its graph: ret is whether it returns at once
StatementBody(w, flags, S) ==
    IF "SERD_LIST_CONT" \in flags
    THEN ListEnded(write_list_obj(w, flags, S.p, S.o))
    ELSE IF serd_node_equals(S.s, w.context.subject)
    THEN IF serd_node_equals(S.p, w.context.predicate)
         THEN LET anon == "SERD_ANON_O_BEGIN" \in flags
                  inner == IF anon THEN w ELSE [w EXCEPT !.indent = @ + 1]
              IN Wrote([write_node(write_sep(inner, "SEP_END_O"), S.o,
                                   "SERD_OBJECT", flags).w
                           EXCEPT !.indent = IF anon THEN @ ELSE @ - 1],
                       FALSE)
         ELSE Wrote(write_node(
                        write_pred(SepIf(SepIf(w, ctx(w, "SERD_PREDICATE")
                                                  # NoNode, "SEP_END_P"),
                                         ctx(w, "SERD_PREDICATE") = NoNode,
                                         "SEP_S_P"),
                                   flags, S.p),
                        S.o, "SERD_OBJECT", flags).w, FALSE)
    ELSE Wrote(StatementSubjectNew(w, flags, S), FALSE)

\* The context that the statement leaves.  The stack of contexts has room
\* for more of them than a writer is given events here.
StatementContext(w, flags, S) ==
    IF flags \cap {"SERD_ANON_S_BEGIN", "SERD_ANON_O_BEGIN"} # {}
    THEN [w EXCEPT !.anon_stack = Append(@, w.context),
                   !.context = WriteContext(S.g, S.s,
                                   IF "SERD_ANON_S_BEGIN" \in flags
                                   THEN S.p ELSE NoNode)]
    ELSE [w EXCEPT !.context.graph = serd_node_set(@, S.g),
                   !.context.subject = serd_node_set(@, S.s),
                   !.context.predicate = serd_node_set(@, S.p)]

BodyDone(body, flags, S) ==
    IF body.ret THEN Done(body.w, "SERD_SUCCESS")
    ELSE Done(StatementContext(body.w, flags, S), "SERD_SUCCESS")

TerseStatement(graph, flags, S) ==
    IF ~graph.ret THEN Done(graph.w, "SERD_ERR_UNKNOWN")
    ELSE BodyDone(StatementBody(graph.w, flags, S), flags, S)

serd_writer_write_statement(w, flags, S) ==
    IF ~is_resource(S.s) \/ ~is_resource(S.p) \/ S.o = NoNode
    THEN Done(w, "SERD_ERR_BAD_ARG")
    ELSE IF IsFlat(w) THEN FlatStatement(w, flags, S)
    ELSE TerseStatement(StatementGraph(w, flags, S.g), flags, S)

serd_writer_end_anon(w, node) ==
    IF IsFlat(w) THEN Done(w, "SERD_SUCCESS")
    ELSE IF w.anon_stack = <<>> \/ w.indent = 0
    THEN Done(w, "SERD_ERR_UNKNOWN")
    ELSE LET top == w.anon_stack[Len(w.anon_stack)]
             closed == write_sep([w EXCEPT !.indent = @ - 1], "SEP_ANON_END")
             popped == [closed EXCEPT
                           !.context = top,
                           !.anon_stack = SubSeq(@, 1, Len(@) - 1)]
         IN IF serd_node_equals(node, top.subject)
            THEN Done([popped EXCEPT !.context.predicate = ZeroNode(@)],
                      "SERD_SUCCESS")
            ELSE Done(popped, "SERD_SUCCESS")

serd_writer_finish(w) ==
    Done([serd_byte_sink_flush(
              SepIf(SepIf(w, ctx(w, "SERD_SUBJECT") # NoNode, "SEP_END_S"),
                    ctx(w, "SERD_GRAPH") # NoNode, "SEP_GRAPH_END"))
             EXCEPT !.indent = 0, !.context = WRITE_CONTEXT_NULL],
         "SERD_SUCCESS")

\* The environment takes a URI with a scheme as its base
serd_env_set_base_uri(w, uri) ==
    IF uri.type = "SERD_URI" /\ serd_uri_string_has_scheme(uri.str)
    THEN Done([w EXCEPT !.base = TRUE], "SERD_SUCCESS")
    ELSE Done(w, "SERD_ERR_BAD_ARG")

serd_writer_set_base_uri(w, uri) ==
    LET set == serd_env_set_base_uri(w, uri)
        ended == IF ctx(w, "SERD_GRAPH") # NoNode
                    \/ ctx(w, "SERD_SUBJECT") # NoNode
                 THEN reset_context(sink(set.w, " .\n\n"), TRUE)
                 ELSE set.w
        based == IF supports_abbrev(w)
                 THEN Sinks(ended, <<"@base <", uri.str, "> .\n">>)
                 ELSE set.w
    IN IF set.st # "SERD_SUCCESS" THEN Done(w, "SERD_ERR_UNKNOWN")
       ELSE Done(reset_context([based EXCEPT !.indent = 0], TRUE),
                 "SERD_SUCCESS")

serd_writer_new(syntax, block_size, room) ==
    [syntax |-> syntax, block_size |-> block_size, room |-> room,
     base |-> FALSE, anon_stack |-> <<>>, context |-> WRITE_CONTEXT_NULL,
     list_subj |-> NoNode, list_depth |-> 0, indent |-> 0,
     last_sep |-> "SEP_NONE", empty |-> TRUE,
     buf |-> <<>>, out |-> <<>>, written |-> TRUE, short |-> FALSE]

----------------------------------------------------------------------------
(* The writer as a state machine: a producer sends one writer its events.  *)

Syntaxes == {"SERD_TURTLE", "SERD_NTRIPLES", "SERD_NQUADS", "SERD_TRIG"}

Unlimited == [syntax : Syntaxes, block_size : {1, BlockSize},
              room : {AmpleRoom}]

Limited == [syntax : Syntaxes, block_size : {1, BlockSize},
            room : 0..MaxRoom]

\* All that the writer was given to write and has not lost
Output(w) == w.out \o w.buf

WriterInitOn(configs) ==
    /\ \E c \in configs :
           writer = serd_writer_new(c.syntax, c.block_size, c.room)
    /\ wrote = [op |-> "new", st |-> "SERD_SUCCESS", n |-> 0, was |-> <<>>,
                event |-> <<>>, finished |-> FALSE, failed |-> FALSE,
                afterFinish |-> FALSE, afterFailure |-> FALSE]
    /\ enabled = {}
    /\ index = [i \in 0..(NUM_ORDERS - 1) |-> {}]
    /\ version = 0
    /\ iters = [k \in Slots |-> NullIter]
    /\ live = {}
    /\ last = <<>>
    /\ input = <<>>
    /\ reader = <<>>
    /\ ret = <<>>
    /\ env = <<>>
    /\ nodes = <<>>
    /\ told = <<>>

\* The writer as an event finds it
Given(w) == [w EXCEPT !.short = FALSE]

\* What an event leaves in the writer and in the history: the event, its
\* status, the writer before it, whether finish has returned with no Base
\* event since, and whether a write has come back short with none since
WriterReturned(res, op, event) ==
    /\ wrote.n < MaxEvents
    /\ writer' = res.w
    /\ wrote' = [op |-> op, st |-> res.st, n |-> wrote.n + 1,
                 was |-> writer, event |-> event,
                 finished |-> IF op = "finish" THEN TRUE
                              ELSE IF op = "base" /\ res.st = "SERD_SUCCESS"
                              THEN FALSE ELSE wrote.finished,
                 failed |-> IF op = "base" /\ res.st = "SERD_SUCCESS"
                            THEN res.w.short
                            ELSE wrote.failed \/ res.w.short,
                 afterFinish |-> wrote.finished,
                 afterFailure |-> wrote.failed]
    /\ UNCHANGED <<storeVars, readerVars, envVars>>

\* The flags of a statement here: none or one, and no list as a subject
FlagSets ==
    {{}} \cup {{f} : f \in {"SERD_EMPTY_O", "SERD_ANON_S_BEGIN",
                            "SERD_ANON_O_BEGIN", "SERD_ANON_CONT",
                            "SERD_LIST_O_BEGIN"}}

WSubjects == {serd_new_uri("s"), serd_new_blank("b")}
\* A relative URI and a literal are objects only of the flat syntaxes here
WObjects(w) ==
    IF w.syntax \in {"SERD_NTRIPLES", "SERD_NQUADS"}
    THEN {serd_new_uri("o"), serd_new_blank("b"), serd_new_uri("rel"),
          serd_new_string("l")}
    ELSE {serd_new_uri("o"), serd_new_blank("b")}
WGraphs(w) ==
    IF w.syntax \in {"SERD_TRIG", "SERD_NQUADS"}
    THEN {NoNode, serd_new_uri("g")} ELSE {NoNode}

SerdStatementOf(s, p, o, g) == [s |-> s, p |-> p, o |-> o, g |-> g]

\* A producer of events flags a blank node where it stands, and continues
\* or ends only a list that it has begun
Flagged(flags, S) ==
    \/ flags = {}
    \/ flags \subseteq {"SERD_ANON_S_BEGIN", "SERD_ANON_CONT"}
       /\ S.s.type = "SERD_BLANK"
    \/ flags \subseteq {"SERD_EMPTY_O", "SERD_ANON_O_BEGIN",
                        "SERD_LIST_O_BEGIN"}
       /\ S.o.type = "SERD_BLANK"

\* The statements of a list, in the graph of the list: an item, a link to
\* the rest, the end
ListStatements(w) ==
    {SerdStatementOf(serd_new_blank("b"), serd_new_uri(p), o,
                     ctx(w, "SERD_GRAPH")) :
         <<p, o>> \in {<<NS_RDF_first, serd_new_uri("o")>>,
                       <<"rdf:rest", serd_new_blank("b")>>,
                       <<"rdf:rest", serd_new_uri(NS_RDF_nil)>>}}

WriteStatement(flags, S) ==
    /\ Flagged(flags, S)
    /\ WriterReturned(serd_writer_write_statement(Given(writer), flags, S),
                      "statement", <<flags, S>>)

WriteListStatement(S) ==
    /\ IsFlat(writer) \/ (writer.list_depth > 0 /\ writer.indent > 0)
    /\ WriterReturned(serd_writer_write_statement(Given(writer),
                                                  {"SERD_LIST_CONT"}, S),
                      "statement", <<{"SERD_LIST_CONT"}, S>>)

EndAnon(node) ==
    WriterReturned(serd_writer_end_anon(Given(writer), node), "end", node)

SetBase(uri) ==
    WriterReturned(serd_writer_set_base_uri(Given(writer), uri), "base", uri)

Finish ==
    WriterReturned(serd_writer_finish(Given(writer)), "finish", <<>>)

WriterNext ==
    \/ \E flags \in FlagSets, s \in WSubjects, o \in WObjects(writer),
          g \in WGraphs(writer) :
           WriteStatement(flags, SerdStatementOf(s, serd_new_uri("p"), o, g))
    \/ \E S \in ListStatements(writer) : WriteListStatement(S)
    \/ EndAnon(serd_new_blank("b"))
    \/ SetBase(serd_new_uri("base"))
    \/ Finish

SpecWriter == WriterInitOn(Unlimited) /\ [][WriterNext]_vars

SpecSink == WriterInitOn(Limited) /\ [][WriterNext]_vars

----------------------------------------------------------------------------
(* What the writer writes, and what it returns *)

\* The tokens that the last event added to the output
Produced ==
    SubSeq(Output(writer), Len(Output(wrote.was)) + 1, Len(Output(writer)))

Occurrences(token, tokens) ==
    Cardinality({i \in 1..Len(tokens) : tokens[i] = token})

\* A node as the flat syntaxes write it
FlatText(node) ==
    CASE node.type = "SERD_URI" -> <<"<", node.str, ">">>
      [] node.type = "SERD_BLANK" -> <<"_:", node.str>>
      [] node.type = "SERD_LITERAL" -> <<"\"", node.str, "\"">>
      [] OTHER -> <<>>

\* The line S P O [G] . of a statement
FlatLine(syntax, S) ==
    FlatText(S.s) \o <<" ">> \o FlatText(S.p) \o <<" ">> \o FlatText(S.o)
    \o (IF syntax = "SERD_NQUADS" /\ S.g # NoNode
        THEN <<" ">> \o FlatText(S.g) ELSE <<>>)
    \o <<" .\n">>

\* C17: when finish has returned, it has written a "]" for every anonymous
\* node that was open, the " ." of the statement that was open and the " }"
\* of the graph that was open, and nothing is left in the buffer of the
\* byte sink
FinishClosesAll ==
    wrote.op = "finish" =>
        /\ Occurrences("]", Produced) >= Len(wrote.was.anon_stack)
        /\ ctx(wrote.was, "SERD_SUBJECT") # NoNode
               => Occurrences(" .\n\n", Produced) > 0
        /\ ctx(wrote.was, "SERD_GRAPH") # NoNode
               => Occurrences(" }", Produced) > 0
        /\ writer.buf = <<>>

\* C18: a Statement event that follows finish, with no Base event between
\* them, returns an error and writes nothing
AfterFinishStatementsFail ==
    wrote.op = "statement" /\ wrote.afterFinish =>
        wrote.st # "SERD_SUCCESS" /\ Produced = <<>>

\* C19: an event during which a write to the stream comes back short returns
\* an error, and a Statement event that follows it, with no Base event
\* between them, returns an error and writes nothing
ShortWriteIsError ==
    /\ writer.short => wrote.st # "SERD_SUCCESS"
    /\ wrote.op = "statement" /\ wrote.afterFailure =>
           wrote.st # "SERD_SUCCESS" /\ Produced = <<>>

\* C20: in NTriples and NQuads a Statement event that returns success has
\* written exactly the line S P O [G] . of its nodes, whatever its flags and
\* the events before it, and the output never holds a token of an
\* abbreviation
FlatLinePerStatement ==
    IsFlat(writer) =>
        /\ wrote.op = "statement" /\ wrote.st = "SERD_SUCCESS" =>
               Produced = FlatLine(writer.syntax, wrote.event[2])
        /\ \A i \in 1..Len(Output(writer)) :
               Output(writer)[i] \notin {" ,", " ;", "[", "]", "[]", "(", ")",
                                        "()", "a", " {", " }"}

\* A flagged statement in a graph is accepted after other events
FlatFlaggedStatement ==
    /\ writer.syntax = "SERD_NQUADS"
    /\ wrote.op = "statement"
    /\ wrote.st = "SERD_SUCCESS"
    /\ wrote.n = MaxEvents
    /\ wrote.event[1] = {"SERD_ANON_O_BEGIN"}
    /\ wrote.event[2].g # NoNode
    /\ wrote.was.out # <<>>

----------------------------------------------------------------------------
(* The terse syntaxes: a producer sends a Turtle or TriG writer statements *)
(* of two subjects and two predicates, ends of anonymous nodes and finish. *)

Terse == [syntax : {"SERD_TURTLE", "SERD_TRIG"}, block_size : {1},
          room : {AmpleRoom}]

WPredicates == {serd_new_uri("p"), serd_new_uri("q")}

\* The flags of a statement here: none, or one about an anonymous node
AnonFlagSets ==
    {{}} \cup {{f} : f \in {"SERD_ANON_S_BEGIN", "SERD_ANON_O_BEGIN",
                            "SERD_ANON_CONT"}}

TerseNext ==
    \/ \E flags \in AnonFlagSets, s \in WSubjects, p \in WPredicates,
          o \in WObjects(writer), g \in WGraphs(writer) :
           WriteStatement(flags, SerdStatementOf(s, p, o, g))
    \/ EndAnon(serd_new_blank("b"))
    \/ Finish

SpecTerse == WriterInitOn(Terse) /\ [][TerseNext]_vars

\* The last event was a statement that begins an anonymous node, or the end
\* of one, and was accepted
AnonBegun ==
    /\ wrote.op = "statement"
    /\ wrote.st = "SERD_SUCCESS"
    /\ wrote.event[1] \cap {"SERD_ANON_S_BEGIN", "SERD_ANON_O_BEGIN"} # {}

AnonEnded == wrote.op = "end" /\ wrote.st = "SERD_SUCCESS"

\* The depth of the stack of contexts
Depth(w) == Len(w.anon_stack)

\* The depth after the last event is the depth before it, one more after an
\* accepted statement that begins an anonymous node, one less after an
\* accepted end; and an end that finds the stack empty is refused
DepthCounts ==
    /\ Depth(writer) = Depth(wrote.was) + (IF AnonBegun THEN 1 ELSE 0)
                                        - (IF AnonEnded THEN 1 ELSE 0)
    /\ wrote.op = "end" /\ wrote.was.anon_stack = <<>>
           => wrote.st # "SERD_SUCCESS" /\ writer.anon_stack = <<>>

\* The context on top of the stack before the last event
Pushed == wrote.was.anon_stack[Depth(wrote.was)]

\* C24 as it was claimed: in Turtle and TriG every accepted statement that
\* begins an anonymous node writes one "[" and pushes a context, every
\* accepted end writes one "]" and leaves the context that was pushed last,
\* so the depth of the stack is the number of such statements less the
\* number of ends, and an end that finds the stack empty is refused
AnonBracketsAndDepth ==
    wrote.n > 0 =>
        /\ DepthCounts
        /\ AnonBegun => Occurrences("[", Produced) = 1
        /\ AnonEnded => /\ Occurrences("]", Produced) = 1
                        /\ writer.context = Pushed

\* The node that the last statement flags is written by it: an object
\* always, a subject unless it is the subject of the context, which is
\* never written again
FlaggedWritten ==
    \/ "SERD_ANON_O_BEGIN" \in wrote.event[1]
    \/ ~serd_node_equals(wrote.event[2].s, wrote.was.context.subject)
    \/ wrote.event[2].g # ctx(wrote.was, "SERD_GRAPH")

\* What the writer keeps in place of it: every accepted statement that
\* begins an anonymous node pushes a context, and writes one "[" where it writes the
\* flagged node and none where it does not write it; every accepted end
\* writes one "]" and leaves the context that was pushed last, with its
\* predicate cleared if the node that ends is the subject of that context;
\* so the depth of the stack is the number of such statements less the
\* number of ends, and an end that finds the stack empty is refused
AnonDepthBalanced ==
    wrote.n > 0 =>
        /\ DepthCounts
        /\ AnonBegun =>
               Occurrences("[", Produced) = IF FlaggedWritten THEN 1 ELSE 0
        /\ AnonEnded =>
               /\ Occurrences("]", Produced) = 1
               /\ writer.context =
                      IF serd_node_equals(wrote.event, Pushed.subject)
                      THEN [Pushed EXCEPT !.predicate = ZeroNode(@)]
                      ELSE Pushed

\* Two anonymous nodes were begun, one in the other, and the inner one has
\* been ended
AnonInnerEnded ==
    /\ wrote.n = MaxEvents
    /\ AnonEnded
    /\ Depth(writer) = 1
    /\ Occurrences("[", Output(writer)) = 2
    /\ Occurrences("]", Output(writer)) = 1

\* The tokens that the last event added to the output, white space aside
Visible == SelectSeq(Produced, LAMBDA t : t \notin {" ", "\n", "\t"})

\* The graph, the subject and the predicate of the last statement are those
\* of the context that it found
SameGraph == wrote.event[2].g = ctx(wrote.was, "SERD_GRAPH")
SameSubject == wrote.event[2].s = wrote.was.context.subject
SamePredicate == wrote.event[2].p = wrote.was.context.predicate

\* A node of the last statement as Turtle has it: a "[" for the blank node
\* that the statement begins
TerseText(node, field) ==
    IF node.type = "SERD_BLANK" /\ is_inline_start(writer, field, wrote.event[1])
    THEN <<"[">> ELSE FlatText(node)

SubjectText == TerseText(wrote.event[2].s, "SERD_SUBJECT")
PredicateText == TerseText(wrote.event[2].p, "SERD_PREDICATE")
ObjectText == TerseText(wrote.event[2].o, "SERD_OBJECT")

----------------------------------------------------------------------------
(***************************************************************************)
(* The environment (src/src/env.c) and the inserter (src/src/inserter.c).  *)
(* Here a string is a sequence of characters, and a node is its type, its  *)
(* string, and the type and the string of its datatype.  A reference that  *)
(* is resolved has no dot segments and does not begin with a slash.        *)
(***************************************************************************)

MaxTold == 4        \* the owner of the environment is given so many events

Letters == {"s", "a", "b"}

ENode(type, str, dtype, dstr) ==
    [type |-> type, str |-> str, dtype |-> dtype, dstr |-> dstr]

\* A NULL node pointer
ENull == ENode("NULL", <<>>, "NULL", <<>>)

EUri(str) == ENode("SERD_URI", str, "NULL", <<>>)
ECurie(str) == ENode("SERD_CURIE", str, "NULL", <<>>)
EBlank(str) == ENode("SERD_BLANK", str, "NULL", <<>>)
EString(str) == ENode("SERD_LITERAL", str, "NULL", <<>>)
ETyped(str, datatype) ==
    ENode("SERD_LITERAL", str, datatype.type, datatype.str)

\* The datatype of a literal, NULL if it has none
serd_node_datatype(node) ==
    IF node.dtype = "NULL" THEN ENull
    ELSE ENode(node.dtype, node.dstr, "NULL", <<>>)

\* A letter, then letters, then a colon
HasScheme(str) ==
    \E i \in 2..Len(str) :
        /\ str[i] = ":"
        /\ \A j \in 1..(i - 1) : str[j] \in Letters

\* The first place of a character in a string, 0 if it has none
First(c, str) ==
    IF \E i \in 1..Len(str) : str[i] = c
    THEN CHOOSE i \in 1..Len(str) :
             str[i] = c /\ \A j \in 1..(i - 1) : str[j] # c
    ELSE 0

\* The last place of a slash in a URI, or else that of its scheme's colon
Dir(base) ==
    IF \E i \in 1..Len(base) : base[i] = "/"
    THEN CHOOSE i \in 1..Len(base) :
             base[i] = "/" /\ \A j \in (i + 1)..Len(base) : base[j] # "/"
    ELSE First(":", base)

\* The string of a URI resolved against a base: a URI with a scheme is
\* kept, and so is any without a base; a reference is merged into the
\* path of the base
serd_new_from_uri(str, base) ==
    IF HasScheme(str) \/ ~HasScheme(base) THEN str
    ELSE SubSeq(base, 1, Dir(base)) \o str

serd_new_resolved_uri_i(str, base) ==
    IF str = <<>>
    THEN IF HasScheme(base) THEN EUri(base) ELSE ENull
    ELSE IF HasScheme(serd_new_from_uri(str, base))
    THEN EUri(serd_new_from_uri(str, base))
    ELSE ENull

\* What a call leaves in the environment, and the status it returns
EnvDone(e, st) == [env |-> e, st |-> st]

\* env->base_uri, the empty string being SERD_URI_NULL
BaseUri(e) == e.base_uri_node.str

\* serd_env_set_base_uri() on the fields of the environment
env_set_base_uri(e, uri) ==
    IF uri # ENull /\ uri.type # "SERD_URI"
    THEN EnvDone(e, "SERD_ERR_BAD_ARG")
    ELSE IF uri = ENull
    THEN EnvDone([e EXCEPT !.base_uri_node = ENull], "SERD_SUCCESS")
    ELSE IF serd_new_resolved_uri_i(uri.str, BaseUri(e)) # ENull
    THEN EnvDone([e EXCEPT !.base_uri_node =
                               serd_new_resolved_uri_i(uri.str, BaseUri(e))],
                 "SERD_SUCCESS")
    ELSE EnvDone(e, "SERD_ERR_BAD_ARG")

serd_env_new(base_uri) ==
    LET calloc == [prefixes |-> <<>>, base_uri_node |-> ENull]
    IN IF base_uri # ENull THEN env_set_base_uri(calloc, base_uri).env
       ELSE calloc

serd_env_equals(a, b) ==
    /\ Len(a.prefixes) = Len(b.prefixes)
    /\ serd_node_equals(a.base_uri_node, b.base_uri_node)
    /\ \A i \in 1..Len(a.prefixes) :
           /\ serd_node_equals(a.prefixes[i].name, b.prefixes[i].name)
           /\ serd_node_equals(a.prefixes[i].uri, b.prefixes[i].uri)

\* The place of the first prefix of that name, 0 if there is none
serd_env_find(e, name) ==
    IF \E i \in 1..Len(e.prefixes) : e.prefixes[i].name.str = name
    THEN CHOOSE i \in 1..Len(e.prefixes) :
             /\ e.prefixes[i].name.str = name
             /\ \A j \in 1..(i - 1) : e.prefixes[j].name.str # name
    ELSE 0

serd_env_add_new(e, name, uri) ==
    [e EXCEPT !.prefixes = Append(@, [name |-> name, uri |-> uri])]

serd_env_add(e, name, uri) ==
    IF serd_env_find(e, name.str) # 0
    THEN IF ~serd_node_equals(e.prefixes[serd_env_find(e, name.str)].uri, uri)
         THEN [e EXCEPT !.prefixes[serd_env_find(e, name.str)].uri = uri]
         ELSE e
    ELSE [e EXCEPT !.prefixes = Append(@, [name |-> name, uri |-> uri])]

serd_env_set_prefix(e, name, uri) ==
    IF name.type # "SERD_LITERAL" \/ uri.type # "SERD_URI"
    THEN EnvDone(e, "SERD_ERR_BAD_ARG")
    ELSE IF HasScheme(uri.str)
    THEN EnvDone(serd_env_add(e, name, uri), "SERD_SUCCESS")
    ELSE IF e.base_uri_node = ENull
    THEN EnvDone(e, "SERD_ERR_BAD_ARG")
    ELSE EnvDone(serd_env_add(e, name,
                              serd_new_resolved_uri_i(uri.str, BaseUri(e))),
                 "SERD_SUCCESS")

\* What is found with the prefix at place i, nothing if i is 0
Qualified(e, uri, i) ==
    IF i = 0 THEN [found |-> FALSE, prefix |-> ENull, suffix |-> <<>>]
    ELSE [found  |-> TRUE,
          prefix |-> e.prefixes[i].name,
          suffix |-> SubSeq(uri.str, Len(e.prefixes[i].uri.str) + 1,
                            Len(uri.str))]

serd_env_qualify_in_place(e, uri) ==
    Qualified(e, uri,
              IF \E i \in 1..Len(e.prefixes) :
                     StartsWith(uri.str, e.prefixes[i].uri.str)
              THEN CHOOSE i \in 1..Len(e.prefixes) :
                       /\ StartsWith(uri.str, e.prefixes[i].uri.str)
                       /\ \A j \in 1..(i - 1) :
                              ~StartsWith(uri.str, e.prefixes[j].uri.str)
              ELSE 0)

\* The CURIE of what serd_env_qualify_in_place() has found
CurieOf(q) ==
    IF q.found THEN ECurie(q.prefix.str \o <<":">> \o q.suffix) ELSE ENull

serd_env_qualify(e, uri) == CurieOf(serd_env_qualify_in_place(e, uri))

\* The curie with its first colon at that place and its prefix at place i
Expanded(e, curie, colon, i) ==
    IF i # 0
    THEN [st |-> "SERD_SUCCESS",
          prefix |-> e.prefixes[i].uri.str,
          suffix |-> SubSeq(curie.str, colon + 1, Len(curie.str))]
    ELSE [st |-> "SERD_ERR_BAD_CURIE", prefix |-> <<>>, suffix |-> <<>>]

serd_env_expand_in_place(e, curie) ==
    IF curie.type # "SERD_CURIE" \/ First(":", curie.str) = 0
    THEN [st |-> "SERD_ERR_BAD_ARG", prefix |-> <<>>, suffix |-> <<>>]
    ELSE Expanded(e, curie, First(":", curie.str),
                  serd_env_find(e, SubSeq(curie.str, 1,
                                          First(":", curie.str) - 1)))

\* The literal with the datatype that was found for it
TypedExpanded(node, x) ==
    IF x.st # "SERD_SUCCESS" THEN ENull
    ELSE ETyped(node.str, EUri(x.prefix \o x.suffix))

expand_literal(e, node) ==
    IF serd_node_datatype(node) = ENull THEN node
    ELSE IF node.dtype = "SERD_CURIE"
    THEN TypedExpanded(node,
                       serd_env_expand_in_place(e, serd_node_datatype(node)))
    ELSE IF node.dtype = "SERD_URI"
    THEN IF ~HasScheme(serd_new_from_uri(node.dstr, BaseUri(e)))
         THEN ENull
         ELSE ETyped(node.str, EUri(serd_new_from_uri(node.dstr, BaseUri(e))))
    ELSE ENull

expand_uri(e, node) == serd_new_resolved_uri_i(node.str, BaseUri(e))

\* The URI of what serd_env_expand_in_place() has found
UriOf(x) ==
    IF x.st # "SERD_SUCCESS" THEN ENull ELSE EUri(x.prefix \o x.suffix)

expand_curie(e, node) == UriOf(serd_env_expand_in_place(e, node))

serd_env_expand(e, node) ==
    CASE node.type = "SERD_LITERAL" -> expand_literal(e, node)
      [] node.type = "SERD_URI" -> expand_uri(e, node)
      [] node.type = "SERD_CURIE" -> expand_curie(e, node)
      [] node.type = "SERD_BLANK" -> node
      [] OTHER -> ENull

----------------------------------------------------------------------------
(* The inserter: events go to the environment and to the store.  The      *)
(* identity of an interned node is its place among the world's nodes.     *)

\* serd_nodes_intern() and serd_nodes_manage(): the world's nodes with an
\* equal of that node among them; a NULL node is not interned
serd_nodes_intern(ns, node) ==
    IF node = ENull \/ (\E i \in 1..Len(ns) : ns[i] = node) THEN ns
    ELSE Append(ns, node)

\* The node that was interned: 0 is the NULL pointer
NodeId(ns, node) ==
    IF node = ENull THEN 0 ELSE CHOOSE i \in 1..Len(ns) : ns[i] = node

\* The node that manage_or_intern() hands to the world's nodes
manage_or_intern(manage, intern) ==
    IF manage # ENull THEN manage ELSE intern

\* What an event leaves in the environment, the world and the store
InserterDone(e, ns, idx, ver, st) ==
    [env |-> e, nodes |-> ns, index |-> idx, version |-> ver, st |-> st]

\* The call of serd_model_add_internal() with the interned nodes
InserterAdd(e, ns, en, idx, ver, s, p, o, g) ==
    InserterDone(
        e, ns,
        serd_model_add_internal(
            en, idx, ver,
            <<NodeId(ns, s), NodeId(ns, p), NodeId(ns, o),
              NodeId(ns, g)>>).index,
        ver + 1, "SERD_SUCCESS")

\* The nodes of the statement go to the world's nodes, then to the store
InserterInterned(e, ns, en, idx, ver, s, p, o, g) ==
    InserterAdd(e,
                serd_nodes_intern(
                    serd_nodes_intern(
                        serd_nodes_intern(serd_nodes_intern(ns, g), s), p),
                    o),
                en, idx, ver, s, p, o, g)

serd_inserter_on_statement(e, ns, en, idx, ver, default_graph, S) ==
    InserterInterned(
        e, ns, en, idx, ver,
        manage_or_intern(serd_env_expand(e, S.s), S.s),
        manage_or_intern(serd_env_expand(e, S.p), S.p),
        manage_or_intern(serd_env_expand(e, S.o), S.o),
        IF manage_or_intern(serd_env_expand(e, S.g), S.g) = ENull
        THEN default_graph
        ELSE manage_or_intern(serd_env_expand(e, S.g), S.g))

\* What the environment's answer leaves in the inserter
InserterEnv(r, ns, idx, ver) == InserterDone(r.env, ns, idx, ver, r.st)

serd_inserter_on_event(e, ns, en, idx, ver, default_graph, event) ==
    CASE event.type = "SERD_BASE" ->
             InserterEnv(env_set_base_uri(e, event.uri), ns, idx, ver)
      [] event.type = "SERD_PREFIX" ->
             InserterEnv(serd_env_set_prefix(e, event.name, event.uri),
                         ns, idx, ver)
      [] event.type = "SERD_STATEMENT" ->
             serd_inserter_on_statement(e, ns, en, idx, ver, default_graph,
                                        event.statement)
      [] OTHER -> InserterDone(e, ns, idx, ver, "SERD_SUCCESS")

----------------------------------------------------------------------------
(* The environment and the inserter as state machines *)

Str_base == <<"s", ":", "/">>
Str_dir  == <<"s", ":", "/", "a", "/">>
Str_rel  == <<"a", "/">>

\* What a Base event or a caller gives as a base URI
EBases == {ENull, EUri(Str_base), EUri(Str_rel), EString(<<"a">>)}

\* The names and the URIs of prefixes
ENames == {EString(<<"a">>), EString(<<"b">>), EUri(<<"a">>)}
EPrefixUris == {EUri(Str_base), EUri(Str_dir), EUri(Str_rel)}

\* The URIs that a caller qualifies
EQualified ==
    {EUri(Str_dir \o <<"b">>), EUri(Str_base \o <<"b">>), EUri(Str_dir),
     EUri(<<"b">>)}

\* The nodes that a caller expands
EExpanded ==
    {EUri(Str_rel), ECurie(<<"a", ":", "b">>), ECurie(<<"b">>),
     EBlank(<<"b">>), ETyped(<<"a">>, ECurie(<<"b", ":", "a">>)), ENull}

\* The first history: nothing is bound
Untold ==
    [op |-> "new", st |-> "SERD_SUCCESS", n |-> 0, event |-> <<>>,
     res |-> ENull, was |-> <<>>, firsts |-> <<>>, final |-> <<>>,
     default_graph |-> ENull]

EnvInitWith(bases, graphs, flags) ==
    /\ \E base \in bases : env = serd_env_new(base)
    /\ nodes = <<>>
    /\ \E g \in graphs : told = [Untold EXCEPT !.default_graph = g]
    /\ enabled = flags
    /\ index = [i \in 0..(NUM_ORDERS - 1) |-> {}]
    /\ version = 0
    /\ iters = [k \in Slots |-> NullIter]
    /\ live = {}
    /\ last = <<>>
    /\ input = <<>>
    /\ reader = <<>>
    /\ ret = <<>>
    /\ writer = <<>>
    /\ wrote = <<>>

\* The URI that a successful Prefix event binds: the one given, resolved
\* against the base of the time
Bound(e, uri) == EUri(serd_new_from_uri(uri.str, BaseUri(e)))

\* The names in the order they were first bound, and the last URI bound
\* to each
ToldPrefix(t, e, name, uri, st) ==
    IF st # "SERD_SUCCESS" THEN t
    ELSE [t EXCEPT
             !.firsts = IF \E i \in 1..Len(@) : @[i] = name THEN @
                        ELSE Append(@, name),
             !.final = [x \in DOMAIN @ \cup {name} |->
                           IF x = name THEN Bound(e, uri) ELSE @[x]]]

\* What an event leaves in the history: the event, its status and its
\* result, and the environment before it
Told(t, op, event, st, res) ==
    [t EXCEPT !.op = op, !.event = event, !.st = st, !.res = res,
              !.was = env, !.n = @ + 1]

EnvReturned(r, t) ==
    /\ told.n < MaxTold
    /\ env' = r.env
    /\ told' = t
    /\ UNCHANGED <<nodes, storeVars, readerVars, writerVars>>

EnvSetBase(uri) ==
    /\ EnvReturned(env_set_base_uri(env, uri),
                   Told(told, "set_base_uri", uri,
                        env_set_base_uri(env, uri).st, ENull))

EnvSetPrefix(name, uri) ==
    /\ EnvReturned(serd_env_set_prefix(env, name, uri),
                   Told(ToldPrefix(told, env, name, uri,
                                   serd_env_set_prefix(env, name, uri).st),
                        "set_prefix", <<name, uri>>,
                        serd_env_set_prefix(env, name, uri).st, ENull))

EnvQualify(uri) ==
    /\ EnvReturned(EnvDone(env, "SERD_SUCCESS"),
                   Told(told, "qualify", uri, "SERD_SUCCESS",
                        serd_env_qualify(env, uri)))

EnvExpand(node) ==
    /\ EnvReturned(EnvDone(env, "SERD_SUCCESS"),
                   Told(told, "expand", node, "SERD_SUCCESS",
                        serd_env_expand(env, node)))

EnvNext ==
    \/ \E uri \in EBases : EnvSetBase(uri)
    \/ \E name \in ENames, uri \in EPrefixUris : EnvSetPrefix(name, uri)
    \/ \E uri \in EQualified : EnvQualify(uri)
    \/ \E node \in EExpanded : EnvExpand(node)

EnvInit == EnvInitWith({ENull, EUri(Str_base)}, {ENull}, {})

SpecEnv == EnvInit /\ [][EnvNext]_vars

\* The events that the inserter is given
IBases == {EUri(Str_base), EUri(Str_rel)}
INames == {EString(<<"a">>)}
IPrefixUris == {EUri(Str_dir), EUri(Str_rel)}

ISubjects == {EUri(Str_base \o <<"a">>), EUri(<<"b">>),
              ECurie(<<"a", ":", "b">>)}
IPredicates == {EUri(Str_base \o <<"b">>), ECurie(<<"b", ":", "a">>)}
IObjects == {EBlank(<<"b">>), EString(<<"a">>),
             ETyped(<<"a">>, ECurie(<<"a", ":", "b">>)),
             ETyped(<<"a">>, EUri(<<"b">>))}
IGraphs == {ENull, ECurie(<<"a", ":", "a">>)}

IFirst == [s |-> EUri(Str_base \o <<"a">>), p |-> EUri(Str_base \o <<"b">>),
           o |-> EBlank(<<"b">>), g |-> ENull]

\* The statements: every node of each set, in its field of a statement
\* whose other nodes are the first of their sets
IStatements ==
    {S \in [s : ISubjects, p : IPredicates, o : IObjects, g : IGraphs] :
        Cardinality({f \in {"s", "p", "o", "g"} : S[f] # IFirst[f]}) <= 1}

InserterReturned(r, t) ==
    /\ told.n < MaxTold
    /\ env' = r.env
    /\ nodes' = r.nodes
    /\ index' = r.index
    /\ version' = r.version
    /\ told' = t
    /\ UNCHANGED <<enabled, iters, live, last, readerVars, writerVars>>

\* The inserter is given an event
InserterGiven(event, t) ==
    InserterReturned(
        serd_inserter_on_event(env, nodes, enabled, index, version,
                               told.default_graph, event),
        Told(t, event.type, event,
             serd_inserter_on_event(env, nodes, enabled, index, version,
                                    told.default_graph, event).st,
             ENull))

InserterBase(uri) ==
    /\ InserterGiven([type |-> "SERD_BASE", uri |-> uri], told)

InserterPrefix(name, uri) ==
    /\ InserterGiven([type |-> "SERD_PREFIX", name |-> name, uri |-> uri],
                     ToldPrefix(told, env, name, uri,
                                serd_env_set_prefix(env, name, uri).st))

InserterStatement(S) ==
    /\ InserterGiven([type |-> "SERD_STATEMENT", statement |-> S], told)

InserterEnd(node) ==
    /\ InserterGiven([type |-> "SERD_END", node |-> node], told)

InserterNext ==
    \/ \E uri \in IBases : InserterBase(uri)
    \/ \E name \in INames, uri \in IPrefixUris : InserterPrefix(name, uri)
    \/ \E S \in IStatements : InserterStatement(S)
    \/ InserterEnd(EBlank(<<"b">>))

InserterInit ==
    EnvInitWith({ENull}, {ENull, EUri(Str_base \o <<"a">>)},
                serd_model_new({}, TRUE))

SpecInserter == InserterInit /\ [][InserterNext]_vars

----------------------------------------------------------------------------
(* Properties of the environment and of the inserter *)

RECURSIVE Rebound(_, _, _)
\* The environment after the names are bound to their final URIs, one call
\* of serd_env_set_prefix() for every name
Rebound(e, names, final) ==
    IF names = <<>> THEN e
    ELSE Rebound(serd_env_set_prefix(e, Head(names), final[Head(names)]).env,
                 Tail(names), final)

\* C21: after any sequence of set_prefix calls no two prefixes of the
\* environment have the same name, and the environment equals one that was
\* made with the same base URI and given the names in the order they were
\* first bound, each with the URI that was bound to it last
PrefixNamesUnique ==
    /\ \A i, j \in 1..Len(env.prefixes) :
           env.prefixes[i].name = env.prefixes[j].name => i = j
    /\ serd_env_equals(env, Rebound(serd_env_new(env.base_uri_node),
                                    told.firsts, told.final))

\* The first of two bound names has been bound again, to another URI
PrefixRebound ==
    /\ told.op = "set_prefix"
    /\ told.st = "SERD_SUCCESS"
    /\ Len(told.was.prefixes) = 2
    /\ serd_env_find(told.was, told.event[1].str) = 1
    /\ told.was.prefixes[1].uri # env.prefixes[1].uri
    /\ ~HasScheme(told.event[2].str)

\* The suffix of a CURIE is a local name: it has no slash
IsLocalName(str) == \A i \in 1..Len(str) : str[i] # "/"

\* The prefix at place i qualifies the URI
Qualifies(e, uri, i) ==
    /\ StartsWith(uri.str, e.prefixes[i].uri.str)
    /\ IsLocalName(SubSeq(uri.str, Len(e.prefixes[i].uri.str) + 1,
                          Len(uri.str)))

\* C22: qualify returns the CURIE of the first prefix, in the order of the
\* table, whose URI begins the given URI and leaves a valid local name,
\* and nothing when there is no such prefix
QualifyFirstValid ==
    told.op = "qualify" =>
        IF \E i \in 1..Len(env.prefixes) : Qualifies(env, told.event, i)
        THEN \E i \in 1..Len(env.prefixes) :
                 /\ Qualifies(env, told.event, i)
                 /\ \A j \in 1..(i - 1) : ~Qualifies(env, told.event, j)
                 /\ told.res = CurieOf(Qualified(env, told.event, i))
        ELSE told.res = ENull

\* A node that needs no environment: no CURIE and no relative URI, in the
\* node or in its datatype
IsExpanded(node) ==
    /\ node.type # "SERD_CURIE"
    /\ node.type = "SERD_URI" => HasScheme(node.str)
    /\ node.dtype # "SERD_CURIE"
    /\ node.dtype = "SERD_URI" => HasScheme(node.dstr)

\* C23: every node of every statement in the store is expanded, whatever
\* events the inserter was given
StoredExpanded ==
    \A o \in enabled : \A q \in index[o] : \A i \in 1..TUP_LEN :
        q[i] # 0 => IsExpanded(nodes[q[i]])

----------------------------------------------------------------------------
(* Pattern search under every index configuration: the caller adds         *)
(* statements and searches with every pattern, through one iterator, and   *)
(* the history keeps the pattern and what serd_model_best_index() chose    *)
(* for it                                                                  *)

\* The statements of the caller that searches: two triples that differ in
\* every field, the first in both graphs
SearchStatements == {<<1, 1, 1, 0>>, <<1, 1, 1, 1>>, <<2, 2, 2, 1>>}

\* The patterns that serd_model_find() hands to serd_model_best_index()
Searched == Patterns \ {AllWild}

\* What a search leaves in the history
Sought(pat, best) ==
    [op |-> "search", st |-> "SERD_SUCCESS", dup |-> FALSE, it |-> 1,
     pat |-> pat, order |-> best.order, mode |-> best.mode,
     n_prefix |-> best.n_prefix]

Search(pat) ==
    /\ iters[1] = NullIter
    /\ iters' = [iters EXCEPT
                     ![1] = serd_model_find(enabled, index, version, pat)]
    /\ last' = Sought(pat, serd_model_best_index(enabled, pat))
    /\ UNCHANGED <<enabled, index, version, live>>
    /\ UNCHANGED <<readerVars, writerVars, envVars>>

SearchNext ==
    \/ \E q \in SearchStatements : Add(q[1], q[2], q[3], q[4])
    \/ \E pat \in Searched : Search(pat)
    \/ IterNext(1)
    \/ IterFree(1)

SpecSearch == StoreInit /\ [][SearchNext]_vars

\* The fields of a pattern that are not wildcards
Concrete(pat) == {f \in 1..TUP_LEN : pat[f] # 0}

\* The first n fields of an order
Leading(order, n) == {Ordering(order)[i] : i \in 1..n}

\* The iterator, while it stands on a statement in range mode, stands on
\* one that matches its pattern
RangeMatches ==
    iters[1] # NullIter /\ iters[1].mode = "RANGE" /\ iters[1].cur # END
        => serd_statement_matches_quad(iters[1].cur, iters[1].pat)

\* C28: whenever a search is to go in range mode, the length of the prefix
\* is the number of concrete fields of the pattern, these are the leading
\* fields of the chosen order, and every statement that the iterator
\* stands on matches the pattern
RangePrefixIsConcrete ==
    /\ last.op = "search" /\ last.mode = "RANGE" =>
           /\ last.n_prefix = Cardinality(Concrete(last.pat))
           /\ Leading(last.order, Cardinality(Concrete(last.pat)))
                  = Concrete(last.pat)
    /\ RangeMatches

\* C29: the order chosen for a search is one that the store has an index
\* for, whatever the pattern and whatever the indices of the store
SelectedIndexEnabled == last.op = "search" => last.order \in enabled

====
